---- MODULE Spec2Model ----
(***************************************************************************)
(* Model of the MCP protocol dispatcher (MCPHandler), the tool registry    *)
(* (Server), the search tool, the search use case and request validation   *)
(* of perplexity-mcp-golang.                                               *)
(*                                                                         *)
(* Strings whose length matters are records [text, len, blank]; error      *)
(* values are records [isNil, bare, chain, msg] where chain is the set of  *)
(* sentinels errors.Is finds and msg is Error() as a sequence of tokens.   *)
(***************************************************************************)
EXTENDS Integers, Sequences, FiniteSets, TLC

(* ------------------------------ bounds -------------------------------- *)

\* largest number of entries of a generated options map
MaxOptionEntries == 21
\* number of distinct descriptions a mock capability may carry
NumDescriptions == 2
\* offsets above 2^53 of the numeric request ids that are tried
MaxIdOffset == 1
\* bytes above the response size cap of the largest upstream body
MaxOverCap == 1
\* domains above the filter limit of the longest domain filter option
MaxExtraDomains == 1

(* ------------------------- program constants -------------------------- *)

MaxQueryLength == 10000
MaxOptionsCount == 20
MaxOptionKeyLength == 100
MaxOptionValueLength == 1000
MaxSourcesCount == 10
MaxTokensLimit == 128000

MCPErrorParseError == -32700
MCPErrorInvalidRequest == -32600
MCPErrorMethodNotFound == -32601
MCPErrorInternalError == -32603
MCPErrorServerError == -32000

ToolNameSearch == "perplexity_search"

DefaultModel == "sonar"
MaxResponseSize == 10 * 1024 * 1024
MaxDomainFilterLength == 3000
MaxDomainLength == 253
MaxFilterDomains == 10

StatusOK == 200
StatusBadRequest == 400
StatusUnauthorized == 401
StatusTooManyRequests == 429
StatusInternalServerError == 500
StatusBadGateway == 502
StatusServiceUnavailable == 503

(* ------------------------------ errors -------------------------------- *)

ErrAPIKeyMissing == "perplexity API key not configured"
ErrInvalidQuery == "invalid search query"
ErrInvalidRequest == "invalid request parameters"
ErrRateLimited == "rate limit exceeded"
ErrAPIError == "perplexity API error"
ErrNetworkError == "network connection error"
ErrTimeout == "request timeout"
ErrToolNotFound == "tool not found"
ErrToolExecution == "tool execution failed"
ErrConfigurationError == "configuration error"

\* the nil error
NilErr == [isNil |-> TRUE, bare |-> FALSE, chain |-> {}, msg |-> <<>>]

\* a sentinel itself (errors.New at package level)
Sentinel(k) == [isNil |-> FALSE, bare |-> TRUE, chain |-> {k}, msg |-> <<k>>]

\* errors.New(text) created at the call site: no sentinel in its chain
NewError(text) == [isNil |-> FALSE, bare |-> FALSE, chain |-> {}, msg |-> <<text>>]

\* fmt.Errorf("%w<rest>", k, ...): wraps the sentinel k, rest is plain text
ErrorfW(k, rest) ==
    [isNil |-> FALSE, bare |-> FALSE, chain |-> {k}, msg |-> <<k>> \o rest]

\* fmt.Errorf("<prefix>%w", err): keeps err's chain
ErrorfPrefixW(prefix, err) ==
    [isNil |-> FALSE, bare |-> FALSE, chain |-> err.chain, msg |-> <<prefix>> \o err.msg]

\* fmt.Errorf("<prefix>%s", err.Error()): only the text of err survives
ErrorfPrefixS(prefix, err) ==
    [isNil |-> FALSE, bare |-> FALSE, chain |-> {}, msg |-> <<prefix>> \o err.msg]

\* fmt.Errorf("%w: %s", k, err.Error()): wraps k, only the text of err survives
ErrorfWS(k, err) ==
    [isNil |-> FALSE, bare |-> FALSE, chain |-> {k}, msg |-> <<k, ": ">> \o err.msg]

\* errors.Is(err, k)
Is(err, k) == (~err.isNil) /\ k \in err.chain

\* err == k (interface identity with the sentinel)
IsIdentical(err, k) == (~err.isNil) /\ err.bare /\ err.chain = {k}

\* TRUE iff s ends with t
IsSuffix(t, s) ==
    /\ Len(t) <= Len(s)
    /\ SubSeq(s, Len(s) - Len(t) + 1, Len(s)) = t

(* ------------------------------ strings ------------------------------- *)

\* a Go string: its text, len(s) (a number of bytes), the number of characters
\* it holds, and whether strings.TrimSpace(s) == ""
SUtf8(text, len, chars, blank) == [text |-> text, len |-> len, chars |-> chars, blank |-> blank]

\* a string of one-byte characters
S(text, len, blank) == SUtf8(text, len, len, blank)

EmptyStr == S("", 0, TRUE)

(* ------------------------ SearchRequest.Validate ---------------------- *)

ValidSonarModels ==
    {"sonar", "sonar-pro", "sonar-reasoning", "sonar-reasoning-pro", "sonar-deep-research"}
ValidSearchModes == {"web", "academic", "news"}
ValidDateRanges == {"day", "week", "month", "year"}

\* len(r.Query) > MaxQueryLength
QueryTooLong(q) == q.len > MaxQueryLength

\* the error an options entry raises in the loop of Validate, NilErr if none
OptionEntryError(e) ==
    IF e.key.len > MaxOptionKeyLength
    THEN ErrorfW(ErrInvalidRequest, <<": option key length exceeds maximum">>)
    ELSE IF e.val.len > MaxOptionValueLength
    THEN ErrorfW(ErrInvalidRequest, <<": option value length exceeds maximum">>)
    ELSE NilErr

\* the errors the loop over the options may return, one per offending entry
OptionErrors(r) == {OptionEntryError(e) : e \in r.Options} \ {NilErr}

\* The errors Validate may return for r.  It is a set because the loop over
\* the options map visits the entries in an unspecified order and returns at
\* the first offending entry; every other check is deterministic.
Validate(r) ==
    IF r.Query.blank THEN {Sentinel(ErrInvalidQuery)}
    ELSE IF QueryTooLong(r.Query)
    THEN {ErrorfW(ErrInvalidRequest, <<": query length exceeds maximum">>)}
    ELSE IF r.MaxTokens < 0
    THEN {ErrorfW(ErrInvalidRequest, <<": max_tokens cannot be negative">>)}
    ELSE IF r.MaxTokens > MaxTokensLimit
    THEN {ErrorfW(ErrInvalidRequest, <<": max_tokens exceeds maximum 128000">>)}
    ELSE IF r.Model # "" /\ r.Model \notin ValidSonarModels
    THEN {ErrorfW(ErrInvalidRequest, <<": invalid model">>)}
    ELSE IF r.SearchMode # "" /\ r.SearchMode \notin ValidSearchModes
    THEN {ErrorfW(ErrInvalidRequest, <<": invalid search_mode">>)}
    ELSE IF r.DateRange # "" /\ r.DateRange \notin ValidDateRanges
    THEN {ErrorfW(ErrInvalidRequest, <<": invalid date_range">>)}
    ELSE IF r.SourcesCount > MaxSourcesCount
    THEN {ErrorfW(ErrInvalidRequest, <<": sources count exceeds maximum">>)}
    ELSE IF Cardinality(r.Options) > MaxOptionsCount
    THEN {ErrorfW(ErrInvalidRequest, <<": options count exceeds maximum">>)}
    ELSE IF OptionErrors(r) = {} THEN {NilErr} ELSE OptionErrors(r)

(* --------------------------- domain values ---------------------------- *)

\* a SearchRequest; Options is the map as a set of [key, val] entries
SearchRequest(q, model, mode, maxTokens, dateRange, nSources, opts) ==
    [Query |-> q, Model |-> model, SearchMode |-> mode, MaxTokens |-> maxTokens,
     DateRange |-> dateRange, SourcesCount |-> nSources, Options |-> opts]

ZeroRequest == SearchRequest(EmptyStr, "", "", 0, "", 0, {})

\* a Usage
Usage(prompt, completion, total) ==
    [PromptTokens |-> prompt, CompletionTokens |-> completion, TotalTokens |-> total]

ZeroUsage == Usage(0, 0, 0)

\* a time.Time is known by the calendar year it falls in; the zero value
\* falls in year 1.  The times a result was created at: one of these days and one of the year
\* 10000, whose seconds an int64 holds
CreatedTimes == {2024, 10000}

\* a *SearchResult; isNil is the nil pointer
NilSearchResult ==
    [isNil |-> TRUE, ID |-> "", Content |-> <<>>, Model |-> "", Usage |-> ZeroUsage,
     Citations |-> 0, Sources |-> 0, Created |-> 1]

\* a *ToolResult; isNil is the nil pointer.  Metadata is the set of its keys
\* and Marshalable tells whether encoding/json can encode every value in it.
ToolResult(content, isError, metadata, marshalable, citations) ==
    [isNil |-> FALSE, Content |-> content, IsError |-> isError, Metadata |-> metadata,
     Marshalable |-> marshalable, Citations |-> citations]

NilToolResult ==
    [isNil |-> TRUE, Content |-> <<>>, IsError |-> FALSE, Metadata |-> {},
     Marshalable |-> TRUE, Citations |-> 0]

(* ---------------------- domain.PerplexityClient ----------------------- *)

\* what PerplexityClient.Search hands back for a request: a result or an error
\* the errors are those Client.Search returns: the status errors, the
\* timeout and the network error of makeRequest, the error of its own
\* validation, and the error of the conversion, which wraps no sentinel
ClientErrors ==
    { ErrorfW(ErrAPIError, <<": server error">>),
      ErrorfW(ErrRateLimited, <<": too many requests">>),
      ErrorfW(ErrTimeout, <<": request timed out">>),
      ErrorfW(ErrNetworkError, <<": request failed">>),
      ErrorfW(ErrAPIKeyMissing, <<": unauthorized">>),
      ErrorfW(ErrInvalidRequest, <<": bad request">>),
      ErrorfWS(ErrInvalidRequest, Sentinel(ErrInvalidQuery)),
      ErrorfPrefixW("failed to convert search request: ",
                    ErrorfPrefixW("failed to process search options: ",
                                  NewError("too many domains in search_domain_filter: 11 > 10"))) }

\* created is the time of a result handed back
ClientOutcomes ==
    {[ok |-> TRUE, err |-> NilErr, created |-> t] : t \in CreatedTimes}
    \cup {[ok |-> FALSE, err |-> e, created |-> 1] : e \in ClientErrors}

\* the result of a successful upstream call for request r, created at t
ClientResult(r, t) ==
    [isNil |-> FALSE, ID |-> "id-1", Content |-> <<"answer to ", r.Query.text>>,
     Model |-> r.Model, Usage |-> Usage(10, 20, 30), Citations |-> 1, Sources |-> 1,
     Created |-> t]

\* PerplexityClient.Search(ctx, r) under the upstream behaviour c
ClientSearch(r, c) ==
    IF c.ok THEN [result |-> ClientResult(r, c.created), err |-> NilErr]
    ELSE [result |-> NilSearchResult, err |-> c.err]

\* the environment of one call: the error Validate returns for the request
\* (its choice among the offending option entries) and the upstream behaviour
EnvsFor(r) == {[verr |-> v, client |-> c] : v \in Validate(r), c \in ClientOutcomes}

(* ------------------------- perplexity mapper -------------------------- *)

\* a pointer field of APIChatRequest: nil or the value it points to
UnsetNumber == [set |-> FALSE, v |-> 0]

\* a field of type *float64 that is unset; a set one holds the float64
UnsetFloat == [set |-> FALSE, v |-> [sign |-> 0, exp |-> 0, frac |-> "0000000000000"]]
SetNumber(v) == [set |-> TRUE, v |-> v]
UnsetBool == [set |-> FALSE, v |-> FALSE]
SetBool(v) == [set |-> TRUE, v |-> v]

\* the SearchDomainFilter slice: where it came from, its length and, for a
\* filter built from an option, the domains in order
DomainFilter(origin, n, names) == [origin |-> origin, n |-> n, names |-> names]
NoFilter == DomainFilter("none", 0, <<>>)

\* an APIMessage
APIMessage(role, content) == [Role |-> role, Content |-> content]

\* the APIChatRequest SearchRequestToAPI builds: one user message holding the
\* query, the fields set
APIChatRequest(model, content, maxTokens, mode, filter) ==
    [Model |-> model, Messages |-> <<APIMessage("user", content)>>,
     MaxTokens |-> maxTokens,
     Temperature |-> UnsetFloat, TopP |-> UnsetFloat, Stream |-> FALSE,
     SearchMode |-> mode, DisableSearch |-> UnsetBool, SearchDomainFilter |-> filter]

\* APIChatRequest{}: no message, every field at its zero value
ZeroAPIRequest ==
    [APIChatRequest("", "", UnsetNumber, "", NoFilter) EXCEPT !.Messages = <<>>]

(* a text is the sequence of the bytes of the Go string: a byte below 0x80 is
   its ASCII character, a byte from 0x80 on the character of that code, so
   that Len is len() and a rune outside ASCII takes the bytes of its UTF-8
   encoding *)

\* the i-th byte of a text
Char(text, i) == SubSeq(text, i, i)

\* the function f on 1..n as the sequence of its values, computed once
Tuple(f) == SubSeq(f, 1, Len(f))

\* TRUE iff the text holds the character c
HasChar(text, c) == \E i \in 1..Len(text) : Char(text, i) = c

\* the first index i in lo..hi with (text[i] \in cs) = in, 0 if there is none
RECURSIVE FirstIndex(_, _, _, _, _)
FirstIndex(text, cs, in, lo, hi) ==
    IF lo > hi THEN 0
    ELSE IF lo = hi THEN (IF (Char(text, lo) \in cs) = in THEN lo ELSE 0)
    ELSE LET left == FirstIndex(text, cs, in, lo, (lo + hi) \div 2)
         IN  IF left # 0 THEN left
             ELSE FirstIndex(text, cs, in, (lo + hi) \div 2 + 1, hi)

\* the last such index
RECURSIVE LastIndex(_, _, _, _, _)
LastIndex(text, cs, in, lo, hi) ==
    IF lo > hi THEN 0
    ELSE IF lo = hi THEN (IF (Char(text, lo) \in cs) = in THEN lo ELSE 0)
    ELSE LET right == LastIndex(text, cs, in, (lo + hi) \div 2 + 1, hi)
         IN  IF right # 0 THEN right
             ELSE LastIndex(text, cs, in, lo, (lo + hi) \div 2)

IndexOfAny(text, cs) == FirstIndex(text, cs, TRUE, 1, Len(text))

\* the text without its characters in cs
RECURSIVE Without(_, _)
Without(text, cs) ==
    IF Len(text) <= 1 THEN (IF text \in cs THEN "" ELSE text)
    ELSE Without(SubSeq(text, 1, Len(text) \div 2), cs)
         \o Without(SubSeq(text, Len(text) \div 2 + 1, Len(text)), cs)

UpperLetters == "ABCDEFGHIJKLMNOPQRSTUVWXYZ"
LowerLetters == "abcdefghijklmnopqrstuvwxyz"

\* the upper-case letter of every lower-case ASCII letter
UpperOf ==
    [c \in {Char(LowerLetters, i) : i \in 1..Len(LowerLetters)} |->
        Char(UpperLetters, IndexOfAny(LowerLetters, {c}))]

\* TRUE iff text equals the lower-case ASCII text `lower` but for the case of
\* its ASCII letters
EqualFoldASCII(text, lower) ==
    /\ Len(text) = Len(lower)
    /\ \A i \in 1..Len(text) :
           \/ Char(text, i) = Char(lower, i)
           \/ Char(lower, i) \in DOMAIN UpperOf /\ Char(text, i) = UpperOf[Char(lower, i)]

(* the runes unicode.ToLower maps to the ASCII character c, in UTF-8: c
   itself, its upper-case letter, U+0130 (bytes C4 B0) for i and the Kelvin
   sign U+212A (bytes E2 84 AA) for k *)
LowersToChar(c) ==
    {c} \cup (IF c \in DOMAIN UpperOf THEN {UpperOf[c]} ELSE {})
        \cup (IF c = "i" THEN {"Ä°"} ELSE {})
        \cup (IF c = "k" THEN {"âª"} ELSE {})

(* strings.ToLower(text) = label, for a label of lower-case ASCII letters and
   underscores: text is, rune by rune, a rune that unicode.ToLower maps to
   the character of the label. A byte that starts no such rune is mapped to
   itself, to another rune outside ASCII or, when it is no valid UTF-8, to
   U+FFFD, none of which is in a label. *)
RECURSIVE LowersTo(_, _)
LowersTo(text, label) ==
    IF label = "" THEN text = ""
    ELSE \E r \in LowersToChar(Head(label)) :
            /\ Len(text) >= Len(r)
            /\ SubSeq(text, 1, Len(r)) = r
            /\ LowersTo(SubSeq(text, Len(r) + 1, Len(text)), Tail(label))

(* the white space of unicode.IsSpace in UTF-8: U+0009 to U+000D, U+0020,
   U+0085, U+00A0, U+1680, U+2000 to U+200A, U+2028, U+2029, U+202F, U+205F
   and U+3000 *)
WhiteSpace ==
    {" ", "\t", "\n", "", "\f", "\r",
     "Â", "Â ", "á", "â", "â", "â",
     "â", "â", "â", "â", "â", "â",
     "â", "â", "â¨", "â©", "â¯", "â",
     "ã"}

\* the bytes white space is made of
SpaceBytes == UNION {{Char(w, i) : i \in 1..Len(w)} : w \in WhiteSpace}

\* byte i of the text is part of a white-space rune: no two of their
\* encodings overlap, and a byte of one is decoded as that rune from either
\* end of the text
InSpace(text, i) ==
    /\ Char(text, i) \in SpaceBytes
    /\ \E w \in WhiteSpace :
           \E from \in i - Len(w) + 1..i :
               /\ from >= 1
               /\ from + Len(w) - 1 <= Len(text)
               /\ SubSeq(text, from, from + Len(w) - 1) = w

\* the first byte in lo..hi that is part of no white-space rune, 0 if none
RECURSIVE FirstNonSpace(_, _, _)
FirstNonSpace(text, lo, hi) ==
    IF lo > hi THEN 0
    ELSE IF lo = hi THEN (IF InSpace(text, lo) THEN 0 ELSE lo)
    ELSE LET left == FirstNonSpace(text, lo, (lo + hi) \div 2)
         IN  IF left # 0 THEN left ELSE FirstNonSpace(text, (lo + hi) \div 2 + 1, hi)

\* the last such byte
RECURSIVE LastNonSpace(_, _, _)
LastNonSpace(text, lo, hi) ==
    IF lo > hi THEN 0
    ELSE IF lo = hi THEN (IF InSpace(text, lo) THEN 0 ELSE lo)
    ELSE LET right == LastNonSpace(text, (lo + hi) \div 2 + 1, hi)
         IN  IF right # 0 THEN right ELSE LastNonSpace(text, lo, (lo + hi) \div 2)

\* strings.TrimSpace(text)
TrimSpace(text) ==
    SubSeq(text, IF FirstNonSpace(text, 1, Len(text)) = 0 THEN 1
                 ELSE FirstNonSpace(text, 1, Len(text)),
           LastNonSpace(text, 1, Len(text)))

Digits == {"0", "1", "2", "3", "4", "5", "6", "7", "8", "9"}
HexLetters == {"a", "b", "c", "d", "e", "f", "A", "B", "C", "D", "E", "F"}
DigitValue ==
    ("0" :> 0 @@ "1" :> 1 @@ "2" :> 2 @@ "3" :> 3 @@ "4" :> 4 @@ "5" :> 5 @@ "6" :> 6
     @@ "7" :> 7 @@ "8" :> 8 @@ "9" :> 9 @@ "a" :> 10 @@ "b" :> 11 @@ "c" :> 12
     @@ "d" :> 13 @@ "e" :> 14 @@ "f" :> 15 @@ "A" :> 10 @@ "B" :> 11 @@ "C" :> 12
     @@ "D" :> 13 @@ "E" :> 14 @@ "F" :> 15)

StripLeadingZeros(text) ==
    LET i == FirstIndex(text, {"0"}, FALSE, 1, Len(text))
    IN  IF i = 0 THEN "" ELSE SubSeq(text, i, Len(text))

StripTrailingZeros(text) == SubSeq(text, 1, LastIndex(text, {"0"}, FALSE, 1, Len(text)))

\* n times the text
RECURSIVE Repeat(_, _)
Repeat(text, n) ==
    IF n <= 0 THEN ""
    ELSE IF n % 2 = 0 THEN Repeat(text \o text, n \div 2)
    ELSE text \o Repeat(text, n - 1)

Zeros(n) == Repeat("0", n)

\* the number a text of at most nine digits denotes
RECURSIVE DigitsToNat(_)
DigitsToNat(text) ==
    IF text = "" THEN 0
    ELSE 10 * DigitsToNat(SubSeq(text, 1, Len(text) - 1)) + DigitValue[Char(text, Len(text))]

\* the first n bytes of the text, all of it if it is shorter
Prefix(text, n) == SubSeq(text, 1, IF Len(text) < n THEN Len(text) ELSE n)

StripSign(text) == IF text # "" /\ Head(text) \in {"+", "-"} THEN Tail(text) ELSE text

(* a float64 as math.Float64bits shows it: the sign bit, the 11 bits of the
   biased exponent as a number and the 52 bits of the fraction as 13
   hexadecimal digits *)
Float64(sign, exp, frac) == [sign |-> sign, exp |-> exp, frac |-> frac]
Zero64(sign) == Float64(sign, 0, "0000000000000")
Inf64(sign) == Float64(sign, 2047, "0000000000000")
NaN64 == Float64(0, 2047, "8000000000001")

HexDigitOf == <<"0", "1", "2", "3", "4", "5", "6", "7", "8", "9", "a", "b", "c", "d", "e", "f">>

\* the four bits b[from..from+3] as a hexadecimal digit
Nibble(b, from) == HexDigitOf[8 * b[from] + 4 * b[from + 1] + 2 * b[from + 2] + b[from + 3] + 1]

\* the bits b[2..53] as 13 hexadecimal digits
FracOf(b) ==
    Nibble(b, 2) \o Nibble(b, 6) \o Nibble(b, 10) \o Nibble(b, 14) \o Nibble(b, 18)
    \o Nibble(b, 22) \o Nibble(b, 26) \o Nibble(b, 30) \o Nibble(b, 34) \o Nibble(b, 38)
    \o Nibble(b, 42) \o Nibble(b, 46) \o Nibble(b, 50)

\* the bits of a text of hexadecimal digits
BitsOfHex(text) ==
    Tuple([i \in 1..4 * Len(text) |->
             (DigitValue[Char(text, (i + 3) \div 4)] \div (2 ^ (3 - ((i - 1) % 4)))) % 2])

\* the result of strconv.ParseFloat: err is "" for nil, else the text of
\* ErrSyntax or ErrRange
Parsed(err, f) == [err |-> err, f |-> f]
SyntaxError == Parsed("invalid syntax", Zero64(0))
RangeError(sign) == Parsed("value out of range", Inf64(sign))

(* the float64 nearest to the value 1.sig[2]sig[3]... * 2^t, sticky telling
   that the value has nonzero bits beyond sig: round to nearest, ties to
   even, gradual underflow below 2^-1022 and ErrRange from 2^1024 on *)
RoundToFloat64(sign, t, sig, sticky) ==
    LET keep == IF t >= -1022 THEN 53 ELSE 53 - (-1022 - t)
        Bit(i) == IF i >= 1 /\ i <= Len(sig) THEN sig[i] ELSE 0
        q == Tuple([i \in 1..53 |-> Bit(i - (53 - keep))])
        rest == sticky \/ \E i \in 1..Len(sig) : i > keep + 1 /\ sig[i] = 1
        up == Bit(keep + 1) = 1 /\ (rest \/ q[53] = 1)
        zeros == {i \in 1..53 : q[i] = 0}
        low == IF zeros = {} THEN 0 ELSE CHOOSE i \in zeros : \A j \in zeros : j <= i
        r == IF ~up THEN q
             ELSE Tuple([i \in 1..53 |-> IF i < low THEN q[i]
                                         ELSE IF i = low \/ (low = 0 /\ i = 1) THEN 1
                                         ELSE 0])
        e == (IF t >= -1022 THEN t ELSE -1022) + (IF up /\ low = 0 THEN 1 ELSE 0)
        biased == IF r[1] = 1 THEN e + 1023 ELSE 0
    IN  IF biased >= 2047 THEN RangeError(sign)
        ELSE Parsed("", Float64(sign, biased, FracOf(r)))

(* ----- natural numbers of any size: limbs of nine decimal digits, the
   lowest first, the highest not zero ----- *)

Limbs(digits) ==
    Tuple([i \in 1..(Len(digits) + 8) \div 9 |->
             DigitsToNat(SubSeq(digits, IF Len(digits) - 9 * i + 1 < 1 THEN 1
                                        ELSE Len(digits) - 9 * i + 1,
                                Len(digits) - 9 * (i - 1)))])

\* 2 * a
Double(a) ==
    LET n == Len(a)
        carry(i) == IF i >= 1 /\ a[i] >= 500000000 THEN 1 ELSE 0
    IN  Tuple([i \in 1..n + carry(n) |->
                  IF i = n + 1 THEN 1 ELSE ((2 * a[i]) % 1000000000) + carry(i - 1)])

\* 2^n * a
RECURSIVE ShiftLeft(_, _)
ShiftLeft(a, n) ==
    IF n <= 0 THEN a
    ELSE IF n = 1 THEN Double(a)
    ELSE LET half == ShiftLeft(a, n \div 2)
         IN  IF half = <<>> THEN <<>> ELSE ShiftLeft(half, n - n \div 2)

\* the highest index in lo..hi where a and b differ, a limb past the end
\* counting as 0; 0 if there is none
LimbOf(a, i) == IF i <= Len(a) THEN a[i] ELSE 0
RECURSIVE LastDiff(_, _, _, _)
LastDiff(a, b, lo, hi) ==
    IF lo > hi THEN 0
    ELSE IF lo = hi THEN (IF LimbOf(a, lo) # LimbOf(b, lo) THEN lo ELSE 0)
    ELSE LET right == LastDiff(a, b, (lo + hi) \div 2 + 1, hi)
         IN  IF right # 0 THEN right ELSE LastDiff(a, b, lo, (lo + hi) \div 2)

\* a >= b
Geq(a, b) ==
    IF Len(a) # Len(b) THEN Len(a) > Len(b)
    ELSE LET d == LastDiff(a, b, 1, Len(a)) IN d = 0 \/ a[d] > b[d]

\* a - b for a >= b
Sub(a, b) ==
    LET borrow(i) == LET d == LastDiff(a, b, 1, i - 1)
                     IN  IF d # 0 /\ a[d] < LimbOf(b, d) THEN 1 ELSE 0
        raw == Tuple([i \in 1..Len(a) |->
                        (a[i] - LimbOf(b, i) - borrow(i) + 1000000000) % 1000000000])
    IN  SubSeq(raw, 1, LastDiff(raw, <<>>, 1, Len(raw)))

\* one step of the long division by y: the next bit of the quotient is
\* appended and the rest doubled
DivStep(d, y) ==
    IF Geq(d.rest, y) THEN [bits |-> Append(d.bits, 1), rest |-> Double(Sub(d.rest, y))]
    ELSE [bits |-> Append(d.bits, 0), rest |-> Double(d.rest)]

\* n steps of it
RECURSIVE DivSteps(_, _, _)
DivSteps(d, y, n) ==
    IF n <= 0 THEN d
    ELSE IF n = 1 THEN DivStep(d, y)
    ELSE LET half == DivSteps(d, y, n \div 2)
         IN  IF half.bits = <<>> THEN half ELSE DivSteps(half, y, n - n \div 2)

\* the first n bits of x / y for y <= x < 2 * y, and the rest
DivBits(x, y, n) == DivSteps([bits |-> <<>>, rest |-> x], y, n)

\* y doubled until x < 2 * y, t counting up with it
RECURSIVE Normalized(_, _, _)
Normalized(x, y, t) ==
    IF Geq(x, Double(y)) THEN Normalized(x, Double(y), t + 1) ELSE [y |-> y, t |-> t]

(* the float64 nearest to digits * 10^k, digits holding no leading and no
   trailing zero: the value lies from 10^d on for d = Len(digits) - 1 + k,
   which is beyond the largest float64 from d = 309 on and below half the
   smallest one up to d = -325; else the value is x / y for two natural
   numbers, 2^t0 is a power of two below it, and the bits of the quotient
   are rounded *)
DecimalToFloat64(sign, digits, k) ==
    LET d == Len(digits) - 1 + k
        t0 == IF d >= 0 THEN (d * 3321928) \div 1000000 - 1
              ELSE -(((-d) * 3321929) \div 1000000) - 2
        x == ShiftLeft(Limbs(digits \o Zeros(k)), -t0)
        y == ShiftLeft(Limbs("1" \o Zeros(-k)), t0)
        n == Normalized(x, y, t0)
        q == DivBits(x, n.y, 54)
    IN  IF d >= 309 THEN RangeError(sign)
        ELSE IF d <= -325 THEN Parsed("", Zero64(sign))
        ELSE RoundToFloat64(sign, n.t, q.bits, q.rest # <<>>)

(* the float64 nearest to hex * 2^k for a text hex of hexadecimal digits *)
HexToFloat64(sign, hex, k) ==
    LET h == StripLeadingZeros(hex)
        bits == BitsOfHex(Prefix(h, 15))
        top == CHOOSE i \in 1..4 : bits[i] = 1 /\ \A j \in 1..i - 1 : bits[j] = 0
    IN  IF h = "" THEN Parsed("", Zero64(sign))
        ELSE RoundToFloat64(sign, k + 4 * Len(h) - top,
                            SubSeq(bits, top, IF Len(bits) < top + 53 THEN Len(bits)
                                              ELSE top + 53),
                            \/ \E i \in top + 54..Len(bits) : bits[i] = 1
                            \/ FirstIndex(h, {"0"}, FALSE, 16, Len(h)) # 0)

\* the text starts with a base prefix: "0" and one of b, o, x in either case
HasBasePrefix(body) ==
    Len(body) >= 2 /\ Char(body, 1) = "0" /\ Char(body, 2) \in {"b", "B", "o", "O", "x", "X"}

\* the digits of the base, hexadecimal after the prefix "0x"
BaseDigits(hex) == IF hex THEN Digits \cup HexLetters ELSE Digits

\* the underscores of body from index `from` on stand between two digits of
\* digs, or at index `after` right behind a base prefix and before a digit
UnderscoresBetween(body, digs, from, after) ==
    \A i \in from..Len(body) :
        Char(body, i) = "_" =>
            /\ i < Len(body) /\ Char(body, i + 1) \in digs
            /\ \/ i > 1 /\ Char(body, i - 1) \in digs
               \/ i = after

\* underscoreOK(s) after the sign is skipped
UnderscoreOKBody(body, prefix) ==
    UnderscoresBetween(body,
                       BaseDigits(prefix /\ Char(body, 2) \in {"x", "X"}),
                       IF prefix THEN 3 ELSE 1,
                       IF prefix THEN 3 ELSE 0)

\* underscoreOK(s): an underscore stands between two digits, or between the
\* base prefix and a digit
UnderscoreOK(s) == UnderscoreOKBody(StripSign(s), HasBasePrefix(StripSign(s)))

\* the sign bit a numeral starts with
SignBit(s) == IF s # "" /\ Head(s) = "-" THEN 1 ELSE 0

\* the text starts with "0x" or "0X" and goes on
HasHexPrefix(body) == Len(body) > 2 /\ Char(body, 1) = "0" /\ Char(body, 2) \in {"x", "X"}

\* the lesser of two indices, 0 standing for none
FirstOf(i, j) == IF i = 0 THEN j ELSE IF j = 0 \/ i < j THEN i ELSE j

\* the index of the second point of num, given the index of its first
SecondPoint(num, dot) ==
    IF dot = 0 THEN 0 ELSE FirstIndex(num, {"."}, TRUE, dot + 1, Len(num))

\* the index in num the mantissa ends before, given FirstOf of the first
\* character that is no digit, no underscore and no point and of the second
\* point
MantissaEnd(num, stop) == IF stop = 0 THEN Len(num) + 1 ELSE stop

\* the length of the mantissa num starts with
MantissaLength(num, digs) ==
    MantissaEnd(num, FirstOf(FirstIndex(num, digs \cup {"_", "."}, FALSE, 1, Len(num)),
                             SecondPoint(num, IndexOfAny(num, {"."})))) - 1

\* the digits of the mantissa before its point, and those behind it
IntPart(mant, point) ==
    Without(IF point = 0 THEN mant ELSE SubSeq(mant, 1, point - 1), {"_"})
FracPart(mant, point) ==
    Without(IF point = 0 THEN "" ELSE SubSeq(mant, point + 1, Len(mant)), {"_"})

\* the text behind the mantissa is none for a decimal numeral, or the
\* exponent letter of the base, an optional sign and digits with underscores
\* behind a first digit
ExponentOK(tail, hex) ==
    IF tail = "" THEN ~hex
    ELSE /\ Head(tail) \in (IF hex THEN {"p", "P"} ELSE {"e", "E"})
         /\ StripSign(Tail(tail)) # ""
         /\ Head(StripSign(Tail(tail))) \in Digits
         /\ FirstIndex(StripSign(Tail(tail)), Digits \cup {"_"}, FALSE,
                       1, Len(StripSign(Tail(tail)))) = 0

\* the number the digits of an exponent denote, counted up while it is below
\* 10000
ExponentDigits(edigits) == DigitsToNat(Prefix(StripLeadingZeros(Without(edigits, {"_"})), 5))

\* the exponent the text behind the mantissa denotes
ExponentValue(tail) ==
    IF tail = "" THEN 0
    ELSE IF Head(Tail(tail)) = "-" THEN -ExponentDigits(StripSign(Tail(tail)))
    ELSE ExponentDigits(StripSign(Tail(tail)))

\* the float64 nearest to digits * 10^k, the zeros at the ends of digits
\* going into k
DecimalDigitsToFloat64(sign, digits, k) ==
    IF StripLeadingZeros(digits) = "" THEN Parsed("", Zero64(sign))
    ELSE DecimalToFloat64(sign, StripTrailingZeros(StripLeadingZeros(digits)),
                          k + Len(digits) - Len(StripTrailingZeros(digits)))

\* the conversion of the mantissa ip.fp with the exponent x
ConvertFloat(sign, hex, ip, fp, x) ==
    IF hex THEN HexToFloat64(sign, ip \o fp, x - 4 * Len(fp))
    ELSE DecimalDigitsToFloat64(sign, ip \o fp, x - Len(fp))

\* readFloat's checks on the parts of the numeral, ok the result of
\* underscoreOK, and the conversion
ReadParts(sign, hex, ip, fp, tail, ok) ==
    IF ip \o fp = "" \/ ~ExponentOK(tail, hex) \/ ~ok THEN SyntaxError
    ELSE ConvertFloat(sign, hex, ip, fp, ExponentValue(tail))

ReadMantissa(sign, hex, mant, point, tail, ok) ==
    ReadParts(sign, hex, IntPart(mant, point), FracPart(mant, point), tail, ok)

\* the numeral num, the first n bytes of it the mantissa
ReadSplit(sign, hex, num, n, ok) ==
    ReadMantissa(sign, hex, SubSeq(num, 1, n), IndexOfAny(SubSeq(num, 1, n), {"."}),
                 SubSeq(num, n + 1, Len(num)), ok)

\* the numeral num behind the sign and the prefix "0x"
ReadNumber(sign, hex, num, ok) ==
    ReadSplit(sign, hex, num, MantissaLength(num, BaseDigits(hex)), ok)

\* readFloat and the conversion, for the numeral s and its text behind the
\* sign
ReadFloat(s, body) ==
    ReadNumber(SignBit(s), HasHexPrefix(body),
               IF HasHexPrefix(body) THEN SubSeq(body, 3, Len(body)) ELSE body,
               UnderscoreOK(s))

(* strconv.ParseFloat(s, 64): special, readFloat and the conversion *)
ParseFloat(s) ==
    IF EqualFoldASCII(StripSign(s), "inf") \/ EqualFoldASCII(StripSign(s), "infinity")
    THEN Parsed("", Inf64(SignBit(s)))
    ELSE IF EqualFoldASCII(s, "nan") THEN Parsed("", NaN64)
    ELSE ReadFloat(s, StripSign(s))

\* `f >= 0 && f <= max` for max 1 or 2, which as a float64 has the biased
\* exponent 1022 + max and no fraction; NaN compares false
InRange(f, max) ==
    /\ ~(f.exp = 2047 /\ f.frac # "0000000000000")
    /\ f.sign = 0 \/ (f.exp = 0 /\ f.frac = "0000000000000")
    /\ \/ f.sign = 1
       \/ f.exp < 1022 + max
       \/ f.exp = 1022 + max /\ f.frac = "0000000000000"

\* strconv.ParseBool(value); any other text is a syntax error
BoolValues ==
    ("1" :> TRUE @@ "t" :> TRUE @@ "T" :> TRUE @@ "TRUE" :> TRUE @@ "true" :> TRUE
     @@ "True" :> TRUE @@ "0" :> FALSE @@ "f" :> FALSE @@ "F" :> FALSE
     @@ "FALSE" :> FALSE @@ "false" :> FALSE @@ "False" :> FALSE)

\* a field of type *float64 that was set to f
SetFloat(f) == [set |-> TRUE, v |-> f]

\* n times "x.com" joined by commas, and the length of that text
RECURSIVE JoinDomains(_)
JoinDomains(n) == IF n = 1 THEN "x.com" ELSE JoinDomains(n - 1) \o ",x.com"
JoinedLength(n) == 6 * n - 1

\* the largest number of joined domains an option value is given
MaxJoined == MaxFilterDomains + MaxExtraDomains

\* strings.Split(value, ","): the pieces of the two halves, the last piece
\* of the first half running on into the first piece of the second
RECURSIVE Split(_)
Split(value) ==
    IF Len(value) <= 1 THEN (IF value = "," THEN <<"", "">> ELSE <<value>>)
    ELSE LET left == Split(SubSeq(value, 1, Len(value) \div 2))
             right == Split(SubSeq(value, Len(value) \div 2 + 1, Len(value)))
         IN  SubSeq(left, 1, Len(left) - 1) \o <<left[Len(left)] \o right[1]>>
             \o Tail(right)

\* strings.Split(value, ",") with every piece trimmed
SplitDomains(value) == [i \in 1..Len(Split(value)) |-> TrimSpace(Split(value)[i])]

\* the test of the loop over the pieces
ValidDomain(d) ==
    /\ Len(d) > 0
    /\ Len(d) <= MaxDomainLength
    /\ ~HasChar(d, "/")
    /\ ~HasChar(d, " ")

ValidDomains(value) == SelectSeq(SplitDomains(value), ValidDomain)

\* the case labels of the switch over strings.ToLower(key)
OptionKeys ==
    {"temperature", "top_p", "disable_search", "search_domain_filter", "search_mode"}

\* the case of the switch the entry reaches: the label strings.ToLower(key)
\* equals, "" for the default case
OptionKey(e) ==
    IF \E label \in OptionKeys : LowersTo(e.key.text, label)
    THEN CHOOSE label \in OptionKeys : LowersTo(e.key.text, label)
    ELSE ""

\* the error processSearchOptions returns at entry e, NilErr if none
ProcessOptionError(e) ==
    IF e.key.len > MaxOptionKeyLength THEN NilErr
    ELSE IF e.val.len > MaxOptionValueLength
    THEN NewError("option value for key '" \o e.key.text \o "' is too long: "
                  \o ToString(e.val.len) \o " > " \o ToString(MaxOptionValueLength))
    ELSE IF OptionKey(e) # "search_domain_filter" THEN NilErr
    ELSE IF e.val.len > MaxDomainFilterLength
    THEN NewError("search_domain_filter value too long: " \o ToString(e.val.len)
                  \o " > " \o ToString(MaxDomainFilterLength))
    ELSE IF Len(ValidDomains(e.val.text)) > MaxFilterDomains
    THEN NewError("too many domains in search_domain_filter: "
                  \o ToString(Len(ValidDomains(e.val.text))) \o " > "
                  \o ToString(MaxFilterDomains))
    ELSE NilErr

\* the errors the loop may return: it stops at the first failing entry it
\* meets, and the map is visited in an unspecified order
ProcessErrors(options) == {ProcessOptionError(e) : e \in options} \ {NilErr}

\* the entries that reach the case `key` of the switch
EntriesFor(options, key) ==
    {e \in options : /\ e.key.len <= MaxOptionKeyLength
                     /\ e.val.len <= MaxOptionValueLength
                     /\ OptionKey(e) = key}

\* `err == nil && f >= 0 && f <= max` for the value of a float option
Accepted(value, max) == ParseFloat(value).err = "" /\ InRange(ParseFloat(value).f, max)

\* the values a float option may leave in its field: every entry within
\* [0, max] writes the field and the last one visited wins
FloatChoices(options, key, max, initial) ==
    IF \A e \in EntriesFor(options, key) : ~Accepted(e.val.text, max)
    THEN {initial}
    ELSE {SetFloat(ParseFloat(e.val.text).f) :
            e \in {e \in EntriesFor(options, key) : Accepted(e.val.text, max)}}

BoolChoices(options, key, initial) ==
    IF \A e \in EntriesFor(options, key) : e.val.text \notin DOMAIN BoolValues
    THEN {initial}
    ELSE {SetBool(BoolValues[e.val.text]) :
            e \in {e \in EntriesFor(options, key) : e.val.text \in DOMAIN BoolValues}}

ModeChoices(options, initial) ==
    IF \A e \in EntriesFor(options, "search_mode") : e.val.text \notin ValidSearchModes
    THEN {initial}
    ELSE {e.val.text : e \in {e \in EntriesFor(options, "search_mode") :
                                e.val.text \in ValidSearchModes}}

FilterChoices(options, initial) ==
    IF \A e \in EntriesFor(options, "search_domain_filter") :
           Len(ValidDomains(e.val.text)) = 0
    THEN {initial}
    ELSE {DomainFilter("option", Len(ValidDomains(e.val.text)), ValidDomains(e.val.text)) :
            e \in {e \in EntriesFor(options, "search_domain_filter") :
                     Len(ValidDomains(e.val.text)) > 0}}

\* the entries the loop passes without returning an error
PassingEntries(options) == {e \in options : ProcessOptionError(e) = NilErr}

\* *apiReq after the loop has visited the entries of `visited`, each field
\* holding what the last entry that wrote it left there
AfterEntries(apiReq, visited) ==
    {[apiReq EXCEPT !.Temperature = t, !.TopP = p, !.DisableSearch = d,
                    !.SearchMode = m, !.SearchDomainFilter = f] :
        t \in FloatChoices(visited, "temperature", 2, apiReq.Temperature),
        p \in FloatChoices(visited, "top_p", 1, apiReq.TopP),
        d \in BoolChoices(visited, "disable_search", apiReq.DisableSearch),
        m \in ModeChoices(visited, apiReq.SearchMode),
        f \in FilterChoices(visited, apiReq.SearchDomainFilter)}

\* processSearchOptions(&apiReq, options, logger): the outcomes possible, err
\* the error returned and apiReq the value of *apiReq at the return. The loop
\* returns at the first failing entry it meets, and by then it has written
\* the fields for the passing entries it visited before, which may be any of
\* them
ProcessSearchOptions(apiReq, options) ==
    IF ProcessErrors(options) # {}
    THEN {[err |-> ProcessOptionError(e), apiReq |-> a] :
            e \in options \ PassingEntries(options),
            a \in UNION {AfterEntries(apiReq, visited) :
                            visited \in SUBSET PassingEntries(options)}}
    ELSE {[err |-> NilErr, apiReq |-> a] : a \in AfterEntries(apiReq, options)}

\* SearchRequestToAPI before the options are processed
BaseAPIRequest(req) ==
    APIChatRequest(req.Model, req.Query.text,
                   IF req.MaxTokens > 0 THEN SetNumber(req.MaxTokens) ELSE UnsetNumber,
                   req.SearchMode,
                   IF req.SourcesCount > 0
                   THEN DomainFilter("sources", req.SourcesCount, <<>>) ELSE NoFilter)

\* SearchRequestToAPI(req, logger): the outcomes possible
SearchRequestToAPI(req) ==
    {IF o.err.isNil THEN o
     ELSE [err |-> ErrorfPrefixW("failed to process search options: ", o.err),
           apiReq |-> ZeroAPIRequest] :
        o \in ProcessSearchOptions(BaseAPIRequest(req), req.Options)}

(* ------------------------- perplexity.Client -------------------------- *)

\* One HTTP exchange as the adapter meets it: doFails is httpClient.Do
\* returning an error, readFails io.ReadAll returning one, ctxErr is ctx.Err()
\* at that moment ("none", "deadline" or "canceled"); otherwise the upstream
\* answered with status and a body of size bytes.  body is "response" (a chat
\* completion object), "nested" ({"error":{"error":{"message":..}}}), "flat"
\* ({"error":{"message":..}}) or "text" (not a JSON object); message is the
\* message text of an error envelope or the text of a "text" body; choices is
\* the number of choices of a "response".
Exchange(doFails, readFails, ctxErr, status, size, body, message, choices) ==
    [doFails |-> doFails, readFails |-> readFails, ctxErr |-> ctxErr, status |-> status,
     size |-> size, body |-> body, message |-> message, choices |-> choices,
     created |-> 2024]

\* the exchange x whose "response" body has the time t in "created"
CreatedAt(x, t) == [x EXCEPT !.created = t]

\* an *APIChatResponse; Created is known by the year time.Unix(Created, 0)
\* falls in
NilAPIResponse == [isNil |-> TRUE, ID |-> "", Model |-> "", Choices |-> <<>>,
                   Usage |-> ZeroUsage, Citations |-> 0, Sources |-> 0, Created |-> 1970]

\* APIChatResponse.GetCreatedTime: time.Unix(r.Created, 0)
GetCreatedTime(apiResp) == apiResp.Created

\* json.Unmarshal(respBody, &apiResp) of a 200 body that is a JSON object: the
\* upstream answers the payload with `choices` choices that repeat its query
DecodeResponse(apiReq, http) ==
    IF http.body = "response"
    THEN [isNil |-> FALSE, ID |-> "id-1", Model |-> apiReq.Model,
          Choices |-> [i \in 1..http.choices |->
                          IF i = 1 THEN <<"answer to ", apiReq.Messages[1].Content>>
                          ELSE <<"alternative to ", apiReq.Messages[1].Content>>],
          Usage |-> Usage(10, 20, 30), Citations |-> 1, Sources |-> 1,
          Created |-> http.created]
    ELSE [isNil |-> FALSE, ID |-> "", Model |-> "", Choices |-> <<>>,
          Usage |-> ZeroUsage, Citations |-> 0, Sources |-> 0, Created |-> 1970]

\* APIChatResponse.GetContent
GetContent(apiResp) == IF Len(apiResp.Choices) > 0 THEN apiResp.Choices[1] ELSE <<>>

\* APIResponseToSearchResult
APIResponseToSearchResult(apiResp) ==
    [isNil |-> FALSE, ID |-> apiResp.ID, Content |-> GetContent(apiResp),
     Model |-> apiResp.Model,
     Usage |-> Usage(apiResp.Usage.PromptTokens, apiResp.Usage.CompletionTokens,
                     apiResp.Usage.TotalTokens),
     Citations |-> apiResp.Citations, Sources |-> apiResp.Sources,
     Created |-> GetCreatedTime(apiResp)]

\* mapAPIError(statusCode, message)
MapAPIError(statusCode, message) ==
    IF statusCode = StatusBadRequest THEN ErrorfW(ErrInvalidRequest, <<": ">> \o message)
    ELSE IF statusCode = StatusUnauthorized THEN ErrorfW(ErrAPIKeyMissing, <<": ">> \o message)
    ELSE IF statusCode = StatusTooManyRequests THEN ErrorfW(ErrRateLimited, <<": ">> \o message)
    ELSE IF statusCode \in {StatusInternalServerError, StatusBadGateway, StatusServiceUnavailable}
    THEN ErrorfW(ErrAPIError, <<": ">> \o message)
    ELSE ErrorfW(ErrAPIError, <<": HTTP ", ToString(statusCode), ": ">> \o message)

\* mapStatusCodeError that maps 401 like any other status
MapStatusCodeErrorNoAuth(statusCode) ==
    IF statusCode = StatusBadRequest THEN ErrorfW(ErrInvalidRequest, <<": bad request">>)
    ELSE IF statusCode = StatusTooManyRequests THEN ErrorfW(ErrRateLimited, <<": rate limited">>)
    ELSE IF statusCode \in {StatusInternalServerError, StatusBadGateway, StatusServiceUnavailable}
    THEN ErrorfW(ErrAPIError, <<": server error (HTTP ", ToString(statusCode), ")">>)
    ELSE ErrorfW(ErrAPIError, <<": HTTP ", ToString(statusCode)>>)

\* mapStatusCodeError(statusCode, body)
MapStatusCodeError(statusCode) ==
    IF statusCode = StatusBadRequest THEN ErrorfW(ErrInvalidRequest, <<": bad request">>)
    ELSE IF statusCode = StatusUnauthorized THEN ErrorfW(ErrAPIKeyMissing, <<": unauthorized">>)
    ELSE IF statusCode = StatusTooManyRequests THEN ErrorfW(ErrRateLimited, <<": rate limited">>)
    ELSE IF statusCode \in {StatusInternalServerError, StatusBadGateway, StatusServiceUnavailable}
    THEN ErrorfW(ErrAPIError, <<": server error (HTTP ", ToString(statusCode), ")">>)
    ELSE ErrorfW(ErrAPIError, <<": HTTP ", ToString(statusCode)>>)

\* handleErrorResponse(statusCode, body): a body that is a JSON object
\* decodes into APIErrorResponse, whose message is at error.error.message
HandleErrorResponse(statusCode, http) ==
    IF http.body = "text" THEN MapStatusCodeError(statusCode)
    ELSE MapAPIError(statusCode, IF http.body = "nested" THEN http.message ELSE <<>>)

\* the text of the error httpClient.Do or io.ReadAll returned
CauseText(http) ==
    IF http.ctxErr = "deadline" THEN "context deadline exceeded"
    ELSE IF http.ctxErr = "canceled" THEN "context canceled"
    ELSE "connection reset by peer"

\* io.ReadAll(io.LimitReader(resp.Body, MaxResponseSize)): the bytes read
ReadLimited(size) == IF size < MaxResponseSize THEN size ELSE MaxResponseSize

\* the check of the bytes read that only looks for more than the cap
ResponseTooLargeBeyondCap(n) == n > MaxResponseSize

\* "Check if response was truncated due to size limit"
ResponseTooLarge(n) == n = MaxResponseSize

\* makeRequest handling the status code before the size of the body
ReadResponseStatusFirst(apiReq, http) ==
    IF http.readFails
    THEN [resp |-> NilAPIResponse,
          err |-> ErrorfW(ErrNetworkError, <<": failed to read response: ", CauseText(http)>>)]
    ELSE IF http.status # StatusOK
    THEN [resp |-> NilAPIResponse, err |-> HandleErrorResponse(http.status, http)]
    ELSE IF ResponseTooLarge(ReadLimited(http.size))
    THEN [resp |-> NilAPIResponse,
          err |-> ErrorfW(ErrAPIError, <<": response too large (exceeded ",
                                         ToString(MaxResponseSize), " bytes)">>)]
    ELSE IF http.body = "text"
    THEN [resp |-> NilAPIResponse,
          err |-> ErrorfW(ErrAPIError, <<": failed to parse response: invalid character">>)]
    ELSE [resp |-> DecodeResponse(apiReq, http), err |-> NilErr]

\* makeRequest after httpClient.Do returned a response
ReadResponse(apiReq, http) ==
    IF http.readFails
    THEN [resp |-> NilAPIResponse,
          err |-> ErrorfW(ErrNetworkError, <<": failed to read response: ", CauseText(http)>>)]
    ELSE IF ResponseTooLarge(ReadLimited(http.size))
    THEN [resp |-> NilAPIResponse,
          err |-> ErrorfW(ErrAPIError, <<": response too large (exceeded ",
                                         ToString(MaxResponseSize), " bytes)">>)]
    ELSE IF http.status # StatusOK
    THEN [resp |-> NilAPIResponse, err |-> HandleErrorResponse(http.status, http)]
    ELSE IF http.body = "text"
    THEN [resp |-> NilAPIResponse,
          err |-> ErrorfW(ErrAPIError, <<": failed to parse response: invalid character">>)]
    ELSE [resp |-> DecodeResponse(apiReq, http), err |-> NilErr]

\* makeRequest(ctx, apiReq)
MakeRequest(apiReq, http) ==
    IF http.doFails
    THEN IF http.ctxErr = "deadline"
         THEN [resp |-> NilAPIResponse, err |-> ErrorfW(ErrTimeout, <<": request timed out">>)]
         ELSE [resp |-> NilAPIResponse,
               err |-> ErrorfW(ErrNetworkError, <<": request failed: ", CauseText(http)>>)]
    ELSE ReadResponse(apiReq, http)

\* Search after makeRequest returned m; sent lists the payloads handed to
\* httpClient.Do
SearchResultOf(apiReq, m) ==
    IF ~m.err.isNil
    THEN [result |-> NilSearchResult, err |-> m.err, sent |-> <<apiReq>>]
    ELSE [result |-> APIResponseToSearchResult(m.resp), err |-> NilErr, sent |-> <<apiReq>>]

\* the request of Search handed on with the model it came with
WithModelAsGiven(request) == request

\* the request of Search after "Set default model if not provided"
WithDefaultModel(request) ==
    IF request.Model = "" THEN [request EXCEPT !.Model = DefaultModel] ELSE request

\* Client.Search(ctx, request) in the environment x: x.verr is the error
\* Validate returns, x.conv the outcome of SearchRequestToAPI and x.http the
\* exchange with the upstream
Search(request, x) ==
    IF ~x.verr.isNil
    THEN [result |-> NilSearchResult, err |-> ErrorfWS(ErrInvalidRequest, x.verr),
          sent |-> <<>>]
    ELSE IF ~x.conv.err.isNil
    THEN [result |-> NilSearchResult,
          err |-> ErrorfPrefixW("failed to convert search request: ", x.conv.err),
          sent |-> <<>>]
    ELSE SearchResultOf(x.conv.apiReq, MakeRequest(x.conv.apiReq, x.http))

\* the environments possible for Search(request) over the exchanges hs
SearchEnvs(request, hs) ==
    {[verr |-> v, conv |-> c, http |-> h] :
        v \in Validate(request), c \in SearchRequestToAPI(WithDefaultModel(request)), h \in hs}

(* ------------------------ SearchUseCase.Execute ----------------------- *)

\* ConfigProvider.GetDefaultModel()
ConfigDefaultModel == "sonar"

\* Execute, "Apply default model if not specified"
ApplyDefaultModel(request) ==
    IF request.Model = "" THEN [request EXCEPT !.Model = ConfigDefaultModel] ELSE request

\* Execute, "Apply default model if not specified", with the default model
\* cfg the ConfigProvider holds
ApplyConfiguredModel(request, cfg) ==
    IF request.Model = "" THEN [request EXCEPT !.Model = cfg] ELSE request

\* Execute from the client call on: req was handed to the client, out came back
SearchThroughClient(req, out) ==
    IF ~out.err.isNil
    THEN [result |-> NilSearchResult,
          err |-> ErrorfPrefixW("search operation failed: ", out.err),
          upstream |-> <<req>>]
    ELSE [result |-> out.result, err |-> NilErr, upstream |-> <<req>>]

\* Execute: validate, apply the default model, call the client once.
\* upstream is the sequence of requests handed to the client.
UseCaseExecute(request, env) ==
    IF ~env.verr.isNil
    THEN [result |-> NilSearchResult,
          err |-> ErrorfPrefixW("search request validation failed: ", env.verr),
          upstream |-> <<>>]
    ELSE SearchThroughClient(ApplyDefaultModel(request),
                             ClientSearch(ApplyDefaultModel(request), env.client))

\* Execute whose client is the adapter: req was handed to Client.Search,
\* which returned out; sent lists the payloads that went upstream
ThroughAdapter(req, out) ==
    [result |-> SearchThroughClient(req, out).result,
     err |-> SearchThroughClient(req, out).err,
     upstream |-> <<req>>, sent |-> out.sent]

\* Execute with the default model cfg and the adapter as client; verr is the
\* error of Execute's own call of Validate, x the environment of Client.Search
UseCaseExecuteWith(request, verr, cfg, x) ==
    IF ~verr.isNil
    THEN [result |-> NilSearchResult,
          err |-> ErrorfPrefixW("search request validation failed: ", verr),
          upstream |-> <<>>, sent |-> <<>>]
    ELSE ThroughAdapter(ApplyConfiguredModel(request, cfg),
                        Search(ApplyConfiguredModel(request, cfg), x))

(* ------------------------------ SearchTool ---------------------------- *)

\* JSON values of the arguments object, by the Go type json.Unmarshal gives
\* them: t is "absent", the expected type, or "other" (any other JSON value)
JAbsent == [t |-> "absent", v |-> ""]
JString(v) == [t |-> "string", v |-> v]
JOther == [t |-> "other", v |-> ""]

\* parseSearchRequest up to (not including) the call of Validate
ParseArgs(args) ==
    IF args.query.t # "string"
    THEN [err |-> ErrorfW(ErrInvalidRequest, <<": query must be a string">>),
          request |-> ZeroRequest]
    ELSE IF args.max_tokens.t = "other"
    THEN [err |-> ErrorfW(ErrInvalidRequest, <<": max_tokens must be a number">>),
          request |-> ZeroRequest]
    ELSE IF args.sources.t = "array" /\ ~args.sources.strings
    THEN [err |-> ErrorfW(ErrInvalidRequest, <<": source must be a string">>),
          request |-> ZeroRequest]
    ELSE IF args.sources.t = "other"
    THEN [err |-> ErrorfW(ErrInvalidRequest, <<": sources must be an array">>),
          request |-> ZeroRequest]
    ELSE IF args.options.t = "object" /\ ~args.options.strings
    THEN [err |-> ErrorfW(ErrInvalidRequest, <<": option must be a string">>),
          request |-> ZeroRequest]
    ELSE IF args.options.t = "other"
    THEN [err |-> ErrorfW(ErrInvalidRequest, <<": options must be an object">>),
          request |-> ZeroRequest]
    ELSE [err |-> NilErr,
          request |->
            SearchRequest(args.query.v,
                          IF args.model.t = "string" THEN args.model.v ELSE "",
                          IF args.search_mode.t = "string" THEN args.search_mode.v ELSE "",
                          IF args.max_tokens.t = "number" THEN args.max_tokens.v ELSE 0,
                          IF args.date_range.t = "string" THEN args.date_range.v ELSE "",
                          IF args.sources.t = "array" THEN args.sources.v ELSE 0,
                          IF args.options.t = "object" THEN args.options.v ELSE {})]

\* parseSearchRequest, the final call of Validate on the parsed request p,
\* wrapped in "request validation failed: %w"
ValidateParsed(p, env) ==
    IF ~p.err.isNil THEN p
    ELSE IF ~env.verr.isNil
    THEN [err |-> ErrorfPrefixW("request validation failed: ", env.verr),
          request |-> ZeroRequest]
    ELSE p

\* parseSearchRequest
ParseSearchRequest(args, env) == ValidateParsed(ParseArgs(args), env)

\* the environments possible for a parsed request
EnvsForParsed(p) == IF p.err.isNil THEN EnvsFor(p.request) ELSE EnvsFor(ZeroRequest)

\* the environments possible for a call with these arguments
EnvsForArgs(args) == EnvsForParsed(ParseArgs(args))

\* Time.MarshalJSON fails for a year outside [0, 9999]
MarshalableTime(t) == t >= 0 /\ t <= 9999

\* the error json.MarshalIndent returns for a time it cannot write
MarshalTimeError ==
    NewError("json: error calling MarshalJSON for type time.Time: "
             \o "Time.MarshalJSON: year outside of range [0,9999]")

\* an array of n elements as JSON text
ItemsText(n) == <<"[", ToString(n), " elements]">>

\* json.MarshalIndent(response, "", "  ") of the map formatSearchResult
\* builds: the keys in sorted order, citations and sources only when the
\* result has some
ResultJSON(result) ==
    <<"{\n">>
    \o (IF result.Citations > 0
        THEN <<"  \"citations\": ">> \o ItemsText(result.Citations) \o <<",\n">>
        ELSE <<>>)
    \o <<"  \"content\": \"">> \o result.Content
    \o <<"\",\n  \"created\": \"", ToString(result.Created),
         "\",\n  \"id\": \"", result.ID, "\",\n  \"model\": \"", result.Model, "\",\n">>
    \o (IF result.Sources > 0
        THEN <<"  \"sources\": ">> \o ItemsText(result.Sources) \o <<",\n">>
        ELSE <<>>)
    \o <<"  \"usage\": {\n    \"prompt_tokens\": ", ToString(result.Usage.PromptTokens),
         ",\n    \"completion_tokens\": ", ToString(result.Usage.CompletionTokens),
         ",\n    \"total_tokens\": ", ToString(result.Usage.TotalTokens), "\n  }\n}">>

\* formatSearchResult: the result as indented JSON text, or the error of
\* json.MarshalIndent
FormatSearchResult(result) ==
    IF ~MarshalableTime(result.Created)
    THEN [text |-> <<>>,
          err |-> ErrorfPrefixW("failed to marshal search result: ", MarshalTimeError)]
    ELSE [text |-> ResultJSON(result), err |-> NilErr]

\* SearchTool.Execute after the use case returned out
SearchToolResult(out) ==
    IF ~out.err.isNil
    THEN [result |-> ToolResult(<<"Search failed: ">> \o out.err.msg, TRUE,
                                {"error_type", "query", "model"}, TRUE, 0),
          err |-> out.err, upstream |-> out.upstream]
    ELSE IF ~FormatSearchResult(out.result).err.isNil
    THEN [result |-> ToolResult(<<"Failed to format search result: ">>
                                \o FormatSearchResult(out.result).err.msg,
                                TRUE, {}, TRUE, 0),
          err |-> FormatSearchResult(out.result).err, upstream |-> out.upstream]
    ELSE [result |-> ToolResult(FormatSearchResult(out.result).text, FALSE,
                                {"result_id", "model", "usage", "created",
                                 "sources_count", "citations_count"},
                                TRUE, out.result.Citations),
          err |-> NilErr, upstream |-> out.upstream]

\* SearchTool.Execute after parseSearchRequest returned p
SearchToolRun(p, env) ==
    IF ~p.err.isNil
    THEN [result |-> ToolResult(<<"Invalid search request: ">> \o p.err.msg, TRUE,
                                {"error_type"}, TRUE, 0),
          err |-> p.err, upstream |-> <<>>]
    ELSE SearchToolResult(UseCaseExecute(p.request, env))

\* SearchTool.Execute
SearchToolExecute(args, env) == SearchToolRun(ParseSearchRequest(args, env), env)

(* --------------------------- capabilities ----------------------------- *)

\* a domain.Tool value.  kind "nil" is the nil interface, "search" the
\* SearchTool, "mock" any other implementation, which returns out from Execute.
Tool(kind, name, description, out) ==
    [kind |-> kind, name |-> name, description |-> description, out |-> out]

NilTool == Tool("nil", "", "", [result |-> NilToolResult, err |-> NilErr])

SearchTool ==
    Tool("search", ToolNameSearch, "Search for information using Perplexity AI Sonar models.",
         [result |-> NilToolResult, err |-> NilErr])

\* Tool.Execute(ctx, args)
ToolExecute(tool, args, env) ==
    IF tool.kind = "search" THEN SearchToolExecute(args, env)
    ELSE [result |-> tool.out.result, err |-> tool.out.err, upstream |-> <<>>]

(* ------------------------------- Server ------------------------------- *)

\* NewServer: the registry holds the search tool
NewServer == (ToolNameSearch :> SearchTool)

\* RegisterTool without the check of the tool's own name
RegisterToolNoNameCheck(reg, name, tool) ==
    IF name = ""
    THEN [err |-> ErrorfW(ErrInvalidRequest, <<": tool name cannot be empty">>), tools |-> reg]
    ELSE IF tool.kind = "nil"
    THEN [err |-> ErrorfW(ErrInvalidRequest, <<": tool cannot be nil">>), tools |-> reg]
    ELSE [err |-> NilErr,
          tools |-> [n \in DOMAIN reg \cup {name} |-> IF n = name THEN tool ELSE reg[n]]]

\* RegisterTool that keeps the entry of a name already registered
RegisterToolKeepExisting(reg, name, tool) ==
    IF name = ""
    THEN [err |-> ErrorfW(ErrInvalidRequest, <<": tool name cannot be empty">>), tools |-> reg]
    ELSE IF tool.kind = "nil"
    THEN [err |-> ErrorfW(ErrInvalidRequest, <<": tool cannot be nil">>), tools |-> reg]
    ELSE IF tool.name # name
    THEN [err |-> ErrorfW(ErrInvalidRequest, <<": tool name mismatch">>), tools |-> reg]
    ELSE [err |-> NilErr,
          tools |-> [n \in DOMAIN reg \cup {name} |-> IF n \in DOMAIN reg THEN reg[n] ELSE tool]]

\* RegisterTool(name, tool) on registry reg: the error and the new registry
RegisterTool(reg, name, tool) ==
    IF name = ""
    THEN [err |-> ErrorfW(ErrInvalidRequest, <<": tool name cannot be empty">>), tools |-> reg]
    ELSE IF tool.kind = "nil"
    THEN [err |-> ErrorfW(ErrInvalidRequest, <<": tool cannot be nil">>), tools |-> reg]
    ELSE IF tool.name # name
    THEN [err |-> ErrorfW(ErrInvalidRequest, <<": tool name mismatch">>), tools |-> reg]
    ELSE [err |-> NilErr,
          tools |-> [n \in DOMAIN reg \cup {name} |-> IF n = name THEN tool ELSE reg[n]]]

\* the error ExecuteTool returns for an unknown name
ToolNotFoundErrorUnwrapped(name) ==
    ErrorfPrefixS("tool not found", NewError(": tool '" \o name \o "' not found"))

ToolNotFoundError(name) == ErrorfW(ErrToolNotFound, <<": tool '", name, "' not found">>)

\* the error ExecuteTool returns when the capability returned err
ToolExecutionError(err) == ErrorfWS(ErrToolExecution, err)

\* what a capability that was not run returned
NoToolOut == [result |-> NilToolResult, err |-> NilErr, upstream |-> <<>>]

\* ExecuteTool after tool.Execute returned out: panic is the nil dereference
\* of result.IsError at the final log call; executed lists the capabilities
\* that were run and toolOut is what the capability returned
ExecuteToolResult(tool, out) ==
    IF ~out.err.isNil
    THEN [panic |-> FALSE,
          result |-> ToolResult(<<"Tool execution failed: ">> \o out.err.msg, TRUE,
                                {"tool_name", "error_type"}, TRUE, 0),
          err |-> ToolExecutionError(out.err),
          executed |-> <<tool>>, toolOut |-> out, upstream |-> out.upstream]
    ELSE IF out.result.isNil
    THEN [panic |-> TRUE, result |-> NilToolResult, err |-> NilErr,
          executed |-> <<tool>>, toolOut |-> out, upstream |-> out.upstream]
    ELSE [panic |-> FALSE, result |-> out.result, err |-> NilErr,
          executed |-> <<tool>>, toolOut |-> out, upstream |-> out.upstream]

\* ExecuteTool(ctx, name, args)
ExecuteTool(reg, name, args, env) ==
    IF name \notin DOMAIN reg
    THEN [panic |-> FALSE,
          result |-> ToolResult(<<"Tool '", name, "' not found">>, TRUE, {}, TRUE, 0),
          err |-> ToolNotFoundError(name),
          executed |-> <<>>, toolOut |-> NoToolOut, upstream |-> <<>>]
    ELSE ExecuteToolResult(reg[name], ToolExecute(reg[name], args, env))

\* ListTools(ctx): one ToolInfo per map entry, built from the tool's own
\* Name(), Description() and InputSchema(); the order is unspecified, so the
\* slice is given as the bag of its entries (entry -> number of occurrences)
ToolInfo(tool) == [Name |-> tool.name, Description |-> tool.description, InputSchema |-> tool.kind]

\* ListTools whose slice is made with a length instead of a capacity: the
\* appended entries follow len(s.tools) zero-valued ones
ZeroToolInfo == [Name |-> "", Description |-> "", InputSchema |-> ""]

ListToolsZeroEntries(reg) ==
    [i \in {ToolInfo(reg[n]) : n \in DOMAIN reg} \cup {ZeroToolInfo} |->
        Cardinality({n \in DOMAIN reg : ToolInfo(reg[n]) = i \/ i = ZeroToolInfo})]

ListTools(reg) ==
    [i \in {ToolInfo(reg[n]) : n \in DOMAIN reg} |->
        Cardinality({n \in DOMAIN reg : ToolInfo(reg[n]) = i})]

\* Start(ctx): the required tools must be registered
RequiredTools == {ToolNameSearch}

Start(reg) ==
    IF \E t \in RequiredTools : t \notin DOMAIN reg
    THEN ErrorfW(ErrConfigurationError, <<": required tool not registered">>)
    ELSE NilErr

(* ---------------------- JSON-RPC envelope and ids --------------------- *)

\* 2^27 and 2^26: an integer id n is held as hi * 2^27 + lo, 0 <= lo < 2^27
Pow27 == 2^27
Pow26 == 2^26

\* the id member of a JSON message: absent, null, an integer or a string
IdAbsent == [t |-> "absent", s |-> "", hi |-> 0, lo |-> 0]
IdNull == [t |-> "null", s |-> "", hi |-> 0, lo |-> 0]
IdNumber(hi, lo) == [t |-> "number", s |-> "", hi |-> hi, lo |-> lo]
IdString(s) == [t |-> "string", s |-> s, hi |-> 0, lo |-> 0]

\* strconv.ParseFloat(n, 64) for an integer 0 <= n < 2^54: exact below 2^53,
\* above it only even integers exist and a tie goes to the even mantissa
ParseFloat64(hi, lo) ==
    IF hi < Pow26 \/ lo % 2 = 0 THEN [hi |-> hi, lo |-> lo]
    ELSE IF ((lo - 1) \div 2) % 2 = 0 THEN [hi |-> hi, lo |-> lo - 1]
    ELSE IF lo + 1 = Pow27 THEN [hi |-> hi + 1, lo |-> 0]
    ELSE [hi |-> hi, lo |-> lo + 1]

\* json.Unmarshal of the id member into the `any` field ID: the Go value
DecodeID(id) ==
    IF id.t \in {"absent", "null"} THEN [t |-> "nil", s |-> "", hi |-> 0, lo |-> 0]
    ELSE IF id.t = "number"
    THEN [t |-> "float64", s |-> "",
          hi |-> ParseFloat64(id.hi, id.lo).hi, lo |-> ParseFloat64(id.hi, id.lo).lo]
    ELSE [t |-> "string", s |-> id.s, hi |-> 0, lo |-> 0]

\* json.Marshal of the ID field (`json:"id,omitempty"`): the id member written
EncodeID(v) ==
    IF v.t = "nil" THEN IdAbsent
    ELSE IF v.t = "float64" THEN IdNumber(v.hi, v.lo)
    ELSE IdString(v.s)

NilID == DecodeID(IdAbsent)

\* the request bytes by their JSON form: syntax is "invalid" (not JSON),
\* "null", "other" (a JSON value that is neither null nor an object) or "object";
\* jsonrpc and method are JAbsent (absent or null), a JString, or JOther (a
\* JSON value of another type, which json.Unmarshal rejects)
RawRequest(syntax, jsonrpc, id, method, params) ==
    [syntax |-> syntax, jsonrpc |-> jsonrpc, id |-> id, method |-> method, params |-> params]

\* the params member: t is "absent" (or null), "object" or "other"
EmptyArgs ==
    [query |-> [t |-> "absent", v |-> EmptyStr],
     model |-> JAbsent, search_mode |-> JAbsent, date_range |-> JAbsent,
     max_tokens |-> [t |-> "absent", v |-> 0],
     sources |-> [t |-> "absent", v |-> 0, strings |-> TRUE],
     options |-> [t |-> "absent", v |-> {}, strings |-> TRUE]]

ArgsAbsent == [t |-> "absent", v |-> EmptyArgs]
ArgsObject(a) == [t |-> "object", v |-> a]
ArgsOther == [t |-> "other", v |-> EmptyArgs]

ParamsAbsent == [t |-> "absent", name |-> JAbsent, arguments |-> ArgsAbsent]
ParamsOther == [t |-> "other", name |-> JAbsent, arguments |-> ArgsAbsent]
ParamsObject(name, arguments) == [t |-> "object", name |-> name, arguments |-> arguments]

\* the MCPRequest zero value
ZeroMCPRequest == [JSONRPC |-> "", ID |-> NilID, Method |-> "", Params |-> ParamsAbsent]

\* json.Unmarshal(requestData, &request)
UnmarshalRequest(raw) ==
    IF raw.syntax \in {"invalid", "other"} THEN [ok |-> FALSE, request |-> ZeroMCPRequest]
    ELSE IF raw.syntax = "null" THEN [ok |-> TRUE, request |-> ZeroMCPRequest]
    ELSE IF raw.jsonrpc.t = "other" \/ raw.method.t = "other"
    THEN [ok |-> FALSE, request |-> ZeroMCPRequest]
    ELSE [ok |-> TRUE,
          request |-> [JSONRPC |-> raw.jsonrpc.v, ID |-> DecodeID(raw.id),
                       Method |-> raw.method.v, Params |-> raw.params]]

\* json.Marshal(params) followed by json.Unmarshal into ToolCallParams
UnmarshalToolCallParams(params) ==
    IF params.t = "absent" THEN [ok |-> TRUE, Name |-> "", Arguments |-> EmptyArgs]
    ELSE IF params.t = "other" \/ params.name.t = "other" \/ params.arguments.t = "other"
    THEN [ok |-> FALSE, Name |-> "", Arguments |-> EmptyArgs]
    ELSE [ok |-> TRUE, Name |-> params.name.v, Arguments |-> params.arguments.v]

(* ----------------------------- MCPHandler ----------------------------- *)

\* what a handler gives back to HandleRequest: Go's nil result with an error,
\* or a result value; marshalable tells whether json.Marshal can encode it
NoResult == [kind |-> "none", marshalable |-> TRUE]

HandlerEffects(listed, executed, toolOut, upstream) ==
    [listed |-> listed, executed |-> executed, toolOut |-> toolOut, upstream |-> upstream]

NoEffects == HandlerEffects(0, <<>>, NoToolOut, <<>>)

\* handleToolsList
HandleToolsList(reg) ==
    [panic |-> FALSE,
     result |-> [kind |-> "ToolListResult", marshalable |-> TRUE, Tools |-> ListTools(reg)],
     err |-> NilErr, eff |-> HandlerEffects(1, <<>>, NoToolOut, <<>>)]

\* handleToolCall after ExecuteTool returned x for the tool `name`
ToolCallResult(name, x) ==
    IF x.panic
    THEN [panic |-> TRUE, result |-> NoResult, err |-> NilErr,
          eff |-> HandlerEffects(0, x.executed, x.toolOut, x.upstream)]
    ELSE IF ~x.err.isNil
    THEN [panic |-> FALSE, result |-> NoResult,
          err |-> IF IsIdentical(x.err, ErrToolNotFound)
                  THEN NewError("tool not found: " \o name)
                  ELSE ErrorfPrefixW("tool execution failed: ", x.err),
          eff |-> HandlerEffects(0, x.executed, x.toolOut, x.upstream)]
    ELSE [panic |-> FALSE,
          result |-> [kind |-> "ToolCallResult",
                      marshalable |-> x.result.Marshalable,
                      Content |-> x.result.Content,
                      IsError |-> x.result.IsError,
                      Metadata |-> x.result.Metadata,
                      Citations |-> x.result.Citations],
          err |-> NilErr,
          eff |-> HandlerEffects(0, x.executed, x.toolOut, x.upstream)]

\* handleToolCall after the params were decoded into tp
HandleToolCallParams(reg, tp, env) ==
    IF ~tp.ok
    THEN [panic |-> FALSE, result |-> NoResult,
          err |-> ErrorfPrefixW("invalid tool call parameters: ",
                                NewError("json: cannot unmarshal")),
          eff |-> NoEffects]
    ELSE IF tp.Name = ""
    THEN [panic |-> FALSE, result |-> NoResult,
          err |-> ErrorfW(ErrInvalidRequest, <<": tool name is required">>),
          eff |-> NoEffects]
    ELSE ToolCallResult(tp.Name, ExecuteTool(reg, tp.Name, tp.Arguments, env))

\* handleToolCall
HandleToolCall(reg, params, env) ==
    HandleToolCallParams(reg, UnmarshalToolCallParams(params), env)

\* the response as written on the wire: the members present and their values
WireError(id, code, message, hasData, data) ==
    [jsonrpc |-> "2.0", id |-> id, hasResult |-> FALSE, result |-> NoResult,
     hasError |-> TRUE, code |-> code, message |-> message,
     hasData |-> hasData, data |-> data]

WireResult(id, result) ==
    [jsonrpc |-> "2.0", id |-> id, hasResult |-> TRUE, result |-> result,
     hasError |-> FALSE, code |-> 0, message |-> "", hasData |-> FALSE, data |-> <<>>]

\* the hard-coded fallback envelope of createErrorResponse
FallbackResponse == WireError(IdAbsent, MCPErrorInternalError, "Internal error", FALSE, <<>>)

\* createErrorResponse(id, code, message, data): the bytes and the error
\* returned.  The response holds an id decoded from JSON, an int and strings,
\* which json.Marshal always encodes, so marshalOK is TRUE at every call.
CreateErrorResponse(id, code, message, data, marshalOK) ==
    IF marshalOK
    THEN [resp |-> WireError(EncodeID(id), code, message, ~data.isNil, data.msg),
          err |-> NilErr]
    ELSE [resp |-> FallbackResponse, err |-> NewError("json: unsupported value")]

\* the JSONRPC version check of HandleRequest
AnyVersion(request) == TRUE

ValidVersion(request) == request.JSONRPC = "2.0"

\* the response to a handler error: code -32000 with the error text as data
ServerErrorResponseNoData(id, err) ==
    CreateErrorResponse(id, MCPErrorServerError, "Server error", NilErr, TRUE)

ServerErrorResponse(id, err) ==
    CreateErrorResponse(id, MCPErrorServerError, "Server error", err, TRUE)

\* a returned response: responses is the sequence of responses returned
\* (none when the call panics), err the error returned beside it
Reply(r, eff) == [panic |-> FALSE, responses |-> <<r.resp>>, err |-> r.err, eff |-> eff]

\* HandleRequest, the switch on request.Method
Route(reg, request, env) ==
    IF request.Method = "tools/list"
    THEN HandleToolsList(reg)
    ELSE HandleToolCall(reg, request.Params, env)

\* HandleRequest after the handler returned h
Respond(id, h) ==
    IF h.panic
    THEN [panic |-> TRUE, responses |-> <<>>, err |-> NilErr, eff |-> h.eff]
    ELSE IF ~h.err.isNil
    THEN Reply(ServerErrorResponse(id, h.err), h.eff)
    ELSE IF ~h.result.marshalable
    THEN Reply(CreateErrorResponse(id, MCPErrorInternalError, "Internal error",
                                   NewError("json: unsupported type"), TRUE),
               h.eff)
    ELSE Reply([resp |-> WireResult(EncodeID(id), h.result), err |-> NilErr], h.eff)

\* HandleRequest after json.Unmarshal returned u
HandleParsed(reg, u, env) ==
    IF ~u.ok
    THEN Reply(CreateErrorResponse(NilID, MCPErrorParseError, "Parse error",
                                   NewError("json: cannot unmarshal"), TRUE), NoEffects)
    ELSE IF ~ValidVersion(u.request)
    THEN Reply(CreateErrorResponse(u.request.ID, MCPErrorInvalidRequest,
                                   "Invalid JSONRPC version", NilErr, TRUE), NoEffects)
    ELSE IF u.request.Method \notin {"tools/list", "tools/call"}
    THEN Reply(CreateErrorResponse(u.request.ID, MCPErrorMethodNotFound,
                                   "Method not found: " \o u.request.Method, NilErr, TRUE),
               NoEffects)
    ELSE Respond(u.request.ID, Route(reg, u.request, env))

\* HandleRequest(ctx, requestData)
HandleRequest(reg, raw, env) == HandleParsed(reg, UnmarshalRequest(raw), env)

(* ------------------------------ inputs -------------------------------- *)

QOk1 == S("q1", 2, FALSE)
QOk2 == S("q2", 2, FALSE)
QBlank == S("  ", 2, TRUE)
QMax == S("long", MaxQueryLength, FALSE)
QTooLong == S("toolong", MaxQueryLength + 1, FALSE)
\* 10,000 two-byte characters
QWide == SUtf8("wide", 2 * MaxQueryLength, MaxQueryLength, FALSE)
Queries == {EmptyStr, QBlank, QOk1, QOk2, QMax, QTooLong, QWide}

\* an options map of n valid entries; the i-th key is i characters long
PadOptions(n) == {[key |-> S("k", i, FALSE), val |-> S("v", 1, FALSE)] : i \in 1..n}
LongKeyEntry == [key |-> S("K", MaxOptionKeyLength + 1, FALSE), val |-> S("v", 1, FALSE)]
LongValEntry == [key |-> S("k", 1, FALSE), val |-> S("V", MaxOptionValueLength + 1, FALSE)]
EdgeEntry == [key |-> S("K", MaxOptionKeyLength, FALSE), val |-> S("V", MaxOptionValueLength, FALSE)]
\* a key of 100 and a value of 1,000 two-byte characters
WideKeyEntry ==
    [key |-> SUtf8("W", 2 * MaxOptionKeyLength, MaxOptionKeyLength, FALSE), val |-> S("v", 1, FALSE)]
WideValEntry ==
    [key |-> S("k", 1, FALSE),
     val |-> SUtf8("W", 2 * MaxOptionValueLength, MaxOptionValueLength, FALSE)]

OptionMaps ==
    {PadOptions(n) : n \in {0, 1, MaxOptionsCount} \cup (MaxOptionsCount + 1 .. MaxOptionEntries)}
    \cup {{EdgeEntry}, {LongKeyEntry}, {LongValEntry, EdgeEntry}, {LongKeyEntry, LongValEntry}}
    \cup {{WideKeyEntry}, {WideValEntry}}

BaseRequest == SearchRequest(QOk1, "", "", 0, "", 0, {})

\* the base request with one field varied at a time
SearchRequests ==
    {[BaseRequest EXCEPT !.Query = q] : q \in Queries}
    \cup {[BaseRequest EXCEPT !.Model = m] : m \in ValidSonarModels \cup {"gpt-4"}}
    \cup {[BaseRequest EXCEPT !.SearchMode = m] : m \in ValidSearchModes \cup {"images"}}
    \cup {[BaseRequest EXCEPT !.DateRange = d] : d \in ValidDateRanges \cup {"decade"}}
    \cup {[BaseRequest EXCEPT !.MaxTokens = n] : n \in {-1, 1, MaxTokensLimit, MaxTokensLimit + 1}}
    \cup {[BaseRequest EXCEPT !.Query = QTooLong, !.MaxTokens = -1],
          [BaseRequest EXCEPT !.Model = "gpt-4", !.Options = {WideKeyEntry}]}
    \cup {[BaseRequest EXCEPT !.SourcesCount = n] : n \in {1, MaxSourcesCount, MaxSourcesCount + 1}}
    \cup {[BaseRequest EXCEPT !.Options = o] : o \in OptionMaps}

WithQuery(q) == [EmptyArgs EXCEPT !.query = [t |-> "string", v |-> q]]

ArgMaps ==
    { EmptyArgs,
      [EmptyArgs EXCEPT !.query = [t |-> "other", v |-> EmptyStr]],
      WithQuery(QOk1), WithQuery(QOk2), WithQuery(QBlank), WithQuery(QTooLong),
      [WithQuery(QOk1) EXCEPT !.model = JString("sonar-pro")],
      [WithQuery(QOk1) EXCEPT !.max_tokens = [t |-> "other", v |-> 0]],
      [WithQuery(QOk1) EXCEPT !.options =
          [t |-> "object", v |-> PadOptions(MaxOptionsCount + 1), strings |-> TRUE]] }

\* what a mock capability returns from Execute
OkOut == [result |-> ToolResult(<<"success">>, FALSE, {}, TRUE, 0), err |-> NilErr]

MockOutcomes ==
    { OkOut,
      [result |-> ToolResult(<<"flagged">>, TRUE, {}, TRUE, 0), err |-> NilErr],
      [result |-> ToolResult(<<"data">>, FALSE, {"value"}, FALSE, 0), err |-> NilErr],
      [result |-> NilToolResult, err |-> NilErr],
      [result |-> NilToolResult, err |-> NewError("execution failed")],
      [result |-> NilToolResult, err |-> ErrorfW(ErrInvalidRequest, <<": bad argument">>)],
      [result |-> NilToolResult, err |-> Sentinel(ErrTimeout)] }

MockName == "test_tool"
Description(d) == "A test tool " \o ToString(d)

MockTools ==
    {Tool("mock", MockName, Description(d), OkOut) : d \in 1..NumDescriptions}
    \cup {Tool("mock", MockName, Description(1), o) : o \in MockOutcomes}
    \cup {Tool("mock", ToolNameSearch, Description(1), OkOut)}

RegNames == {"", MockName, ToolNameSearch}
RegTools == {NilTool, SearchTool} \cup MockTools
ExecNames == {"", MockName, ToolNameSearch, "nonexistent_tool"}

Ids ==
    {IdAbsent, IdNull, IdNumber(0, 1), IdString("abc")}
    \cup {IdNumber(Pow26, k) : k \in 0..MaxIdOffset}
CallIds == {IdAbsent, IdNumber(0, 1), IdString("abc")}

Versions == {JAbsent, JString("2.0"), JString("1.0"), JOther}
Methods == {JAbsent, JString("tools/list"), JString("tools/call"), JString("ping"), JOther}

CallParams ==
    { ParamsOther,
      ParamsObject(JAbsent, ArgsAbsent),
      ParamsObject(JOther, ArgsAbsent),
      ParamsObject(JString(""), ArgsObject(EmptyArgs)),
      ParamsObject(JString(MockName), ArgsAbsent),
      ParamsObject(JString(MockName), ArgsOther),
      ParamsObject(JString("nonexistent_tool"), ArgsObject(EmptyArgs)),
      ParamsObject(JString(ToolNameSearch), ArgsAbsent) }
    \cup {ParamsObject(JString(ToolNameSearch), ArgsObject(a)) : a \in ArgMaps}

RawRequests ==
    {RawRequest(s, JAbsent, IdAbsent, JAbsent, ParamsAbsent) : s \in {"invalid", "null", "other"}}
    \cup {RawRequest("object", j, i, m, ParamsAbsent) : j \in Versions, i \in Ids, m \in Methods}
    \cup {RawRequest("object", JString("2.0"), i, JString("tools/call"), p) :
            i \in CallIds, p \in CallParams}

\* the environments that make a difference for a call of tool `name`: the
\* upstream and the option order matter only when the search tool runs
AnyEnv == CHOOSE e \in EnvsFor(ZeroRequest) : TRUE

\* an upstream that answers
OkOutcome == [ok |-> TRUE, err |-> NilErr, created |-> 2024]

\* the environments that make a difference for request r: the upstream
\* behaviour matters only when r passes validation
EnvsForRequest(r) ==
    IF NilErr \in Validate(r) THEN EnvsFor(r)
    ELSE {[verr |-> v, client |-> OkOutcome] : v \in Validate(r)}

EnvsForSearchCall(p) == IF ~p.err.isNil THEN {AnyEnv} ELSE EnvsForRequest(p.request)

EnvsForCall(reg, name, args) ==
    IF name \in DOMAIN reg /\ reg[name].kind = "search"
    THEN EnvsForSearchCall(ParseArgs(args))
    ELSE {AnyEnv}

EnvsForRaw(reg, raw) ==
    EnvsForCall(reg, UnmarshalToolCallParams(raw.params).Name,
                UnmarshalToolCallParams(raw.params).Arguments)

\* an options entry of one-byte characters
Opt(k, klen, v, vlen) == [key |-> S(k, klen, FALSE), val |-> S(v, vlen, FALSE)]

\* an options entry whose key and value are written out in full
Entry(k, v) == Opt(k, Len(k), v, Len(v))

\* a domain name one byte longer than a domain may be
TooLongDomain == Repeat("a", MaxDomainLength - 3) \o ".com"

FilterOpt(v, vlen) == Opt("search_domain_filter", 20, v, vlen)

\* options maps that reach the cases of processSearchOptions
MapperOptionMaps ==
    { {Opt("temperature", 11, "0.7", 3)}, {Opt("temperature", 11, "2.0", 3)},
      {Opt("temperature", 11, "2.1", 3)}, {Opt("temperature", 11, "-0.1", 4)},
      {Opt("temperature", 11, "hot", 3)},
      {Opt("temperature", 11, "0.7", 3), Opt("Temperature", 11, "2.0", 3)},
      {Opt("temperature", 11, "V", MaxOptionValueLength + 1)},
      {Opt("top_p", 5, "1.0", 3)}, {Opt("top_p", 5, "1.1", 3)},
      {Opt("disable_search", 14, "true", 4)}, {Opt("disable_search", 14, "maybe", 5)},
      {Opt("search_mode", 11, "news", 4)}, {Opt("search_mode", 11, "images", 6)},
      {FilterOpt("example.com,trusted.org", 23)},
      {Entry("search_domain_filter", TooLongDomain \o ",valid.com")},
      {Entry("temperature", "0.5"), Entry("top_p", "0.9")},
      {Entry("top_p", "0.95")}, {Entry("temperature", "1e0")}, {Entry("top_p", ".5")},
      {Entry("temperature", "-0")}, {Entry("temperature", "2.000")},
      {Entry("top_p", "0.0000001")}, {Entry("top_p", "+1")}, {Entry("top_p", "1e")},
      {Entry("search_domain_filter", "example.com, test.org, demo.net")},
      {Entry("search_domain_filter", Repeat(",", 14))},
      {Entry("search_domain_filter",
             "d1.com,d2.com,d3.com,d4.com,d5.com,d6.com,d7.com,d8.com,d9.com,d10.com,d11.com")},
      {Entry("temperature", "not-a-number"), Entry("top_p", "infinity"),
       Entry("disable_search", "not-a-bool")},
      {FilterOpt("a.com/x, ,b c", 13)},
      {Opt("temperature", 11, "2.1", 3), Opt("top_p", 5, "1.0", 3),
       FilterOpt("a.com/x, ,b c", 13)},
      {Opt("temperature", 11, "0.7", 3), FilterOpt(JoinDomains(MaxJoined), JoinedLength(MaxJoined))},
      {Entry("temperature", "0x1p-2")}, {Entry("temperature", "2.0000000000000000001")},
      {Entry("top_p", "1.0000000000000002")}, {Entry("top_p", "nan")},
      {Entry("top_p", "1_0e-1")}, {Entry("temperature", "0x1.8p0"), Entry("top_p", "1e-400")},
      \* values with a vertical tab, U+00A0 and U+3000 around their pieces
      {Entry("search_domain_filter", "a.com,")},
      {Entry("search_domain_filter", "Â a.comã,b.org, c d,")},
      \* keys written with U+0130, which strings.ToLower maps to i
      {Entry("DÄ°SABLE_SEARCH", "true")},
      {Entry("SEARCH_DOMAÄ°N_FÄ°LTER", JoinDomains(MaxJoined)), Entry("top_p", "0.25")},
      {LongKeyEntry}, {LongValEntry, EdgeEntry}, {EdgeEntry}, {} }
    \cup {{FilterOpt(JoinDomains(n), JoinedLength(n))} : n \in MaxFilterDomains..MaxJoined}

\* requests handed to the mapper and to the adapter
MapperRequests ==
    {[BaseRequest EXCEPT !.Options = o] : o \in MapperOptionMaps}
    \cup {[BaseRequest EXCEPT !.Model = "sonar-pro", !.MaxTokens = 100, !.SearchMode = "web",
                             !.SourcesCount = 2, !.Options = o] :
            o \in {{}, {Opt("search_mode", 11, "news", 4)}, {Opt("search_mode", 11, "images", 6)},
                   {FilterOpt("example.com,trusted.org", 23)}, {FilterOpt("a.com/x, ,b c", 13)}}}

ClientRequests == SearchRequests \cup MapperRequests

\* the credential the adapter was built with
APIKey == "test-api-key"

\* message texts of upstream error bodies; the second repeats the credential
Messages == {<<"Invalid model specified">>, <<"key ", APIKey, " rejected">>}

\* the size in bytes of an ordinary response body
SmallBody == 512

OkExchange == Exchange(FALSE, FALSE, "none", StatusOK, SmallBody, "response", <<>>, 1)

ContextErrors == {"none", "deadline", "canceled"}

FailedExchanges ==
    {[OkExchange EXCEPT !.doFails = TRUE, !.ctxErr = c] : c \in ContextErrors}
    \cup {[OkExchange EXCEPT !.readFails = TRUE, !.ctxErr = c, !.status = st] :
            c \in ContextErrors, st \in {StatusOK, StatusBadRequest}}

BodySizes == {0, MaxResponseSize - 1} \cup (MaxResponseSize .. MaxResponseSize + MaxOverCap)

SizedExchanges ==
    {[OkExchange EXCEPT !.size = n] : n \in BodySizes}
    \cup {[OkExchange EXCEPT !.size = n, !.status = st, !.body = "nested",
                             !.message = <<"Invalid model specified">>] :
            n \in BodySizes, st \in {StatusBadRequest, StatusTooManyRequests}}

ErrorStatuses ==
    {201, StatusBadRequest, StatusUnauthorized, 403, 404, StatusTooManyRequests,
     StatusInternalServerError, StatusBadGateway, StatusServiceUnavailable, 504}

StatusExchanges ==
    {[OkExchange EXCEPT !.status = st, !.body = b, !.message = m] :
        st \in ErrorStatuses, b \in {"nested", "flat", "text"}, m \in Messages}

OddExchanges ==
    {[OkExchange EXCEPT !.body = b, !.message = <<"Invalid model specified">>] :
        b \in {"nested", "flat", "text"}}
    \cup {[OkExchange EXCEPT !.choices = n] : n \in {0, 2}}

\* answers created at each of the times
TimedExchanges == {CreatedAt(OkExchange, t) : t \in CreatedTimes}

Exchanges == {OkExchange} \cup FailedExchanges \cup SizedExchanges \cup StatusExchanges
             \cup OddExchanges \cup TimedExchanges

\* the exchanges tried for a request: all of them for the base request
ExchangesFor(request) ==
    IF request = BaseRequest THEN Exchanges
    ELSE {OkExchange, [OkExchange EXCEPT !.status = StatusTooManyRequests, !.body = "text"]}

\* the default models a ConfigProvider may hold: NewConfig takes any
\* non-empty PERPLEXITY_DEFAULT_MODEL
ConfigModels == {ConfigDefaultModel, "sonar-pro", "llama-3.1-sonar-small-128k-online"}

\* the requests handed to the use case that runs over the adapter
UseCaseRequests ==
    {BaseRequest, [BaseRequest EXCEPT !.Model = "sonar-reasoning"],
     [BaseRequest EXCEPT !.Query = QBlank], [BaseRequest EXCEPT !.Model = "gpt-4"],
     [BaseRequest EXCEPT !.Options = {Opt("temperature", 11, "0.7", 3)}],
     [BaseRequest EXCEPT !.MaxTokens = MaxTokensLimit]}

\* what Client.Search returned, as an outcome of domain.PerplexityClient
ClientOutcomeOf(out) ==
    [ok |-> out.err.isNil, err |-> out.err, created |-> out.result.Created]

\* exchanges whose answer, when Search succeeds, is ClientResult of the request
EchoExchanges ==
    {h \in Exchanges : ~(h.status = StatusOK /\ (h.body # "response" \/ h.choices # 1))}

\* tools/call messages for perplexity_search with valid arguments
SearchCalls ==
    {RawRequest("object", JString("2.0"), IdNumber(0, 1), JString("tools/call"),
                ParamsObject(JString(ToolNameSearch), ArgsObject(a))) :
        a \in {WithQuery(QOk1), [WithQuery(QOk2) EXCEPT !.model = JString("sonar-pro")]}}

\* the SearchRequest the search tool parses from a tools/call message
CallRequest(raw) == ParseArgs(UnmarshalToolCallParams(raw.params).Arguments).request

(* --------------------------- calls in flight -------------------------- *)

\* the number of tools/call executions running at once on the one server
NumCalls == 2
Calls == 1..NumCalls

\* the query of goroutine i of testConcurrentAccess, whose ids count from 0:
\* no two calls carry the same one
CallQuery(i) ==
    S("concurrent test " \o ToString(i - 1), 16 + Len(ToString(i - 1)), FALSE)

\* the arguments call i may carry: its own query, alone or with a model, the
\* one query every goroutine of TestConcurrentToolExecution carries, or a
\* blank query
CallArgs(i) ==
    {WithQuery(CallQuery(i)),
     [WithQuery(CallQuery(i)) EXCEPT !.model = JString("sonar-pro")],
     WithQuery(S("concurrent test query", 21, FALSE)),
     WithQuery(QBlank)}

\* the answers of the upstream to one call
CallExchanges ==
    {OkExchange,
     [OkExchange EXCEPT !.status = StatusTooManyRequests, !.body = "text"],
     [OkExchange EXCEPT !.doFails = TRUE, !.ctxErr = "deadline"]}

\* what the goroutine of one ExecuteTool call holds: pc is its position,
\* rlock whether it holds toolsLock for reading, args its arguments, tool the
\* capability it looked up, request the SearchRequest handed to Client.Search,
\* attempts the number of times httpClient.Do was invoked, sent the payloads
\* handed to it, http the answer of the upstream, client what Client.Search
\* returned and out what ExecuteTool returned
Call(pc, rlock, args, tool, request, attempts, sent, http, client, out) ==
    [pc |-> pc, rlock |-> rlock, args |-> args, tool |-> tool, request |-> request,
     attempts |-> attempts, sent |-> sent, http |-> http, client |-> client, out |-> out]

\* a call that has not been made yet
IdleCall ==
    Call("Idle", FALSE, EmptyArgs, NilTool, ZeroRequest, 0, <<>>, OkExchange,
         [result |-> NilSearchResult, err |-> NilErr, sent |-> <<>>],
         [panic |-> FALSE, result |-> NilToolResult, err |-> NilErr,
          executed |-> <<>>, toolOut |-> NoToolOut, upstream |-> <<>>])

\* ExecuteTool entered with args: toolsLock.RLock() was granted
LockedCall(c, args) == [c EXCEPT !.pc = "Locked", !.rlock = TRUE, !.args = args]

\* the lookup that leaves the unlocking to the return of ExecuteTool, as a
\* deferred RUnlock would
ReceivedCallDeferUnlock(c, reg) ==
    [c EXCEPT !.pc = "Received", !.tool = reg[ToolNameSearch]]

\* the capability is read from the registry under the read lock, and
\* RUnlock() releases the lock before anything else is done
ReceivedCall(c, reg) ==
    [c EXCEPT !.pc = "Received", !.tool = reg[ToolNameSearch], !.rlock = FALSE]

\* SearchTool.Execute and SearchUseCase.Execute when the use case fails
\* before it calls the client, or after the client returned
ToolOutcome(c) ==
    ExecuteToolResult(c.tool, SearchToolResult(SearchThroughClient(c.request, c.client)))

\* SearchTool.Execute up to the client call: parseSearchRequest gave p and
\* Validate the error v; a rejected request is answered at once, and so is a
\* call whose capability is not the search tool
ValidatedCall(c, p, v) ==
    IF c.tool.kind # "search"
    THEN [c EXCEPT !.pc = "Responded",
                   !.out = ExecuteToolResult(c.tool, ToolExecute(c.tool, c.args, AnyEnv))]
    ELSE IF p.err.isNil /\ v.isNil
    THEN [c EXCEPT !.pc = "Validated", !.request = ApplyDefaultModel(p.request)]
    ELSE [c EXCEPT !.pc = "Responded",
                   !.out = ExecuteToolResult(
                               c.tool,
                               SearchToolRun(ValidateParsed(p, [verr |-> v]), [verr |-> v]))]

\* the outcomes of SearchRequestToAPI for call i of the calls cs that reads
\* the request of the first call
PayloadOfFirst(cs, i) == SearchRequestToAPI(WithDefaultModel(cs[1].request))

\* the outcomes of SearchRequestToAPI for call i of the calls cs: Client.Search
\* works on its own copy of the request
PayloadOf(cs, i) == SearchRequestToAPI(WithDefaultModel(cs[i].request))

\* Client.Search up to httpClient.Do: v is the error of its Validate, conv
\* the outcome of SearchRequestToAPI; the payload is handed to httpClient.Do
\* once
DispatchedCall(c, v, conv) ==
    IF v.isNil /\ conv.err.isNil
    THEN [c EXCEPT !.pc = "Dispatched", !.attempts = @ + 1, !.sent = <<conv.apiReq>>]
    ELSE [c EXCEPT !.pc = "Failed",
                   !.client = Search(c.request, [verr |-> v, conv |-> conv, http |-> c.http])]

\* makeRequest from the return of httpClient.Do on, and the rest of
\* Client.Search: h is the answer of the upstream
CompletedCall(c, h) ==
    [c EXCEPT !.pc = IF MakeRequest(c.sent[1], h).err.isNil THEN "Succeeded" ELSE "Failed",
              !.http = h,
              !.client = SearchResultOf(c.sent[1], MakeRequest(c.sent[1], h))]

\* the return that hands a failed request to httpClient.Do a second time
RespondedAfterRetry(c) ==
    IF c.pc = "Failed" /\ c.attempts = 1
    THEN [c EXCEPT !.pc = "Dispatched", !.attempts = @ + 1]
    ELSE [c EXCEPT !.pc = "Responded", !.out = ToolOutcome(c)]

\* the return of Client.Search through the use case, the tool and
\* ExecuteTool: nothing is tried again
RespondedCall(c) == [c EXCEPT !.pc = "Responded", !.out = ToolOutcome(c)]

\* the tools registered while calls are in flight: the last one replaces the
\* search tool under its name
LateTools ==
    {SearchTool, Tool("mock", MockName, Description(1), OkOut),
     Tool("mock", ToolNameSearch, Description(1), OkOut)}

\* the call holds toolsLock for reading: RLock() was granted to it and it
\* has not called RUnlock() since
ReadLocked(c) == c.rlock

\* the goroutine that registers and lists is in none of its operations
OtherIdle(l) == l.op \in {"NewServer", "RegisterTool", "ListTools"}

\* RegisterTool called Lock() and the lock was not granted yet: a writer that
\* waits keeps every later RLock() waiting
WriterWaits(l) == l.op = "RegisterToolLock"

(* --------------------------- state machine ---------------------------- *)

VARIABLES tools, last, calls
vars == <<tools, last, calls>>

Init ==
    /\ tools = NewServer
    /\ last = [op |-> "NewServer"]
    /\ calls = [i \in Calls |-> IdleCall]

\* a call that took what it needs from the server and has not returned:
\* ExecuteTool between RUnlock and its return, Execute of the use case
\* between its validation and the return of client.Search
Pending(l) ==
    l.op \in {"ExecuteToolLookup", "HandleRequestLookup", "UseCaseExecuteCall",
              "SearchSend", "SearchDo", "ExecuteSearchCall", "SearchCallLookup"}

DoRegisterTool ==
    /\ ~Pending(last)
    /\ \E name \in RegNames, tool \in RegTools :
           /\ tools' = RegisterTool(tools, name, tool).tools
           /\ last' = [op |-> "RegisterTool", name |-> name, tool |-> tool,
                       err |-> RegisterTool(tools, name, tool).err, before |-> tools]
    /\ UNCHANGED calls

\* RegisterTool called by another goroutine while a call is pending, at any
\* point of it and any number of times, whatever the call is about to return:
\* the pending call holds no lock. The tools it registers are the late ones
DoRegisterToolMeanwhile ==
    /\ Pending(last)
    /\ \E name \in {MockName, ToolNameSearch}, tool \in LateTools :
           tools' = RegisterTool(tools, name, tool).tools
    /\ UNCHANGED <<last, calls>>

\* ExecuteTool up to RUnlock: reg is the registry the lookup saw
DoExecuteToolLookup ==
    /\ ~Pending(last)
    /\ UNCHANGED <<tools, calls>>
    /\ \E name \in ExecNames, args \in ArgMaps :
           last' = [op |-> "ExecuteToolLookup", name |-> name, args |-> args, reg |-> tools]

\* ExecuteTool dropping from the registry a tool whose execution failed
DoExecuteToolEvicting ==
    /\ last.op = "ExecuteToolLookup"
    /\ UNCHANGED calls
    /\ \E env \in EnvsForCall(last.reg, last.name, last.args) :
           /\ last' = [op |-> "ExecuteTool", name |-> last.name, args |-> last.args,
                       registered |-> last.name \in DOMAIN last.reg, reg |-> last.reg,
                       out |-> ExecuteTool(last.reg, last.name, last.args, env)]
           /\ tools' = IF last.name \in DOMAIN tools
                           /\ ~ExecuteTool(last.reg, last.name, last.args, env).err.isNil
                        THEN [n \in DOMAIN tools \ {last.name} |-> tools[n]]
                        ELSE tools

\* ExecuteTool from RUnlock to its return
DoExecuteTool ==
    /\ last.op = "ExecuteToolLookup"
    /\ UNCHANGED <<tools, calls>>
    /\ \E env \in EnvsForCall(last.reg, last.name, last.args) :
           last' = [op |-> "ExecuteTool", name |-> last.name, args |-> last.args,
                    registered |-> last.name \in DOMAIN last.reg, reg |-> last.reg,
                    out |-> ExecuteTool(last.reg, last.name, last.args, env)]

DoListTools ==
    /\ ~Pending(last)
    /\ last' = [op |-> "ListTools", list |-> ListTools(tools), err |-> NilErr]
    /\ UNCHANGED <<tools, calls>>

DoStart ==
    /\ ~Pending(last)
    /\ last' = [op |-> "Start", err |-> Start(tools)]
    /\ UNCHANGED <<tools, calls>>

\* HandleRequest up to the last time it reads the registry
DoHandleRequestLookup ==
    /\ ~Pending(last)
    /\ UNCHANGED <<tools, calls>>
    /\ \E raw \in RawRequests :
           last' = [op |-> "HandleRequestLookup", raw |-> raw, reg |-> tools]

\* HandleRequest from there to its return
DoHandleRequest ==
    /\ last.op = "HandleRequestLookup"
    /\ UNCHANGED <<tools, calls>>
    /\ \E env \in EnvsForRaw(last.reg, last.raw) :
           last' = [op |-> "HandleRequest", raw |-> last.raw, reg |-> last.reg,
                    out |-> HandleRequest(last.reg, last.raw, env)]

DoValidate ==
    /\ ~Pending(last)
    /\ UNCHANGED <<tools, calls>>
    /\ \E request \in SearchRequests :
           \E err \in Validate(request) :
               last' = [op |-> "Validate", request |-> request, err |-> err]

\* Execute of the use case up to its call of client.Search: verr is what
\* Validate returned
DoUseCaseExecuteCall ==
    /\ ~Pending(last)
    /\ UNCHANGED <<tools, calls>>
    /\ \E request \in SearchRequests :
           \E verr \in Validate(request) :
               last' = [op |-> "UseCaseExecuteCall", request |-> request, verr |-> verr,
                        reg |-> tools]

\* Execute of the use case from there to its return
DoUseCaseExecute ==
    /\ last.op = "UseCaseExecuteCall"
    /\ UNCHANGED <<tools, calls>>
    /\ \E env \in {e \in EnvsForRequest(last.request) : e.verr = last.verr} :
           last' = [op |-> "UseCaseExecute", request |-> last.request,
                    out |-> UseCaseExecute(last.request, env)]

Next ==
    \/ DoRegisterTool
    \/ DoRegisterToolMeanwhile
    \/ DoExecuteToolLookup
    \/ DoExecuteTool
    \/ DoListTools
    \/ DoStart
    \/ DoHandleRequestLookup
    \/ DoHandleRequest
    \/ DoUseCaseExecuteCall
    \/ DoUseCaseExecute
    \/ DoValidate

Spec == Init /\ [][Next]_vars

(* ------------------- state machine of the adapter --------------------- *)

\* the adapter and the mapper run beside a server that keeps its registry
ClientInit ==
    /\ tools = NewServer
    /\ last = [op |-> "NewClient"]
    /\ calls = [i \in Calls |-> IdleCall]

\* the outcomes of validation and conversion in Client.Search for each of
\* the requests handed to it, computed once
SendEnvs == [request \in ClientRequests |-> SearchEnvs(request, {OkExchange})]

\* the outcomes of SearchRequestToAPI for each of the requests handed to it,
\* computed once
MapperOutcomes == [request \in MapperRequests |-> SearchRequestToAPI(request)]

\* Client.Search up to httpClient.Do in makeRequest: verr is what Validate
\* returned and conv the outcome of SearchRequestToAPI
DoSearchSend ==
    /\ ~Pending(last)
    /\ UNCHANGED <<tools, calls>>
    /\ \E request \in ClientRequests :
           \E x \in SendEnvs[request] :
               last' = [op |-> "SearchSend", request |-> request, verr |-> x.verr,
                        conv |-> x.conv, reg |-> tools]

\* the call was validated and converted, so that makeRequest sends it
Sent(l) == l.verr.isNil /\ l.conv.err.isNil

\* httpClient.Do returns: http is the exchange with the upstream, of which
\* the body is still to be read by io.ReadAll
DoSearchDo ==
    /\ last.op = "SearchSend"
    /\ Sent(last)
    /\ UNCHANGED <<tools, calls>>
    /\ \E http \in ExchangesFor(last.request) :
           last' = [op |-> "SearchDo", request |-> last.request, verr |-> last.verr,
                    conv |-> last.conv, reg |-> last.reg, http |-> http]

\* what Client.Search returns for the call l in the environment x
SearchReturn(l, x) == [op |-> "Search", request |-> l.request, x |-> x, out |-> Search(l.request, x)]

\* Client.Search to its return: from io.ReadAll on, or at once for a request
\* that fails validation or conversion
DoSearch ==
    /\ UNCHANGED <<tools, calls>>
    /\ \/ /\ last.op = "SearchDo"
          /\ last' = SearchReturn(last, [verr |-> last.verr, conv |-> last.conv,
                                         http |-> last.http])
       \/ /\ last.op = "SearchSend"
          /\ ~Sent(last)
          /\ last' = SearchReturn(last, [verr |-> last.verr, conv |-> last.conv,
                                         http |-> OkExchange])

\* SearchRequestToAPI
DoSearchRequestToAPI ==
    /\ ~Pending(last)
    /\ UNCHANGED <<tools, calls>>
    /\ \E request \in MapperRequests :
           \E o \in MapperOutcomes[request] :
               last' = [op |-> "SearchRequestToAPI", request |-> request, out |-> o]

\* SearchUseCase.Execute over the adapter, up to its call of client.Search
DoExecuteSearchCall ==
    /\ ~Pending(last)
    /\ UNCHANGED <<tools, calls>>
    /\ \E request \in UseCaseRequests, cfg \in ConfigModels :
           \E verr \in Validate(request) :
               last' = [op |-> "ExecuteSearchCall", request |-> request, cfg |-> cfg,
                        verr |-> verr, reg |-> tools]

\* SearchUseCase.Execute from there to its return
DoExecuteSearch ==
    /\ last.op = "ExecuteSearchCall"
    /\ UNCHANGED <<tools, calls>>
    /\ \E x \in SearchEnvs(ApplyConfiguredModel(last.request, last.cfg), {OkExchange}) :
           last' = [op |-> "ExecuteSearch", request |-> last.request, cfg |-> last.cfg,
                    verr |-> last.verr, x |-> x,
                    out |-> UseCaseExecuteWith(last.request, last.verr, last.cfg, x)]

\* HandleRequest of a tools/call whose search runs over the adapter, up to
\* RUnlock in ExecuteTool: reg is the registry the lookup saw
DoSearchCallLookup ==
    /\ ~Pending(last)
    /\ UNCHANGED <<tools, calls>>
    /\ \E raw \in SearchCalls :
           last' = [op |-> "SearchCallLookup", raw |-> raw, reg |-> tools]

\* HandleRequest from there to its return
DoSearchCall ==
    /\ last.op = "SearchCallLookup"
    /\ UNCHANGED <<tools, calls>>
    /\ \E x \in SearchEnvs(ApplyDefaultModel(CallRequest(last.raw)), EchoExchanges) :
           last' = [op |-> "SearchCall", raw |-> last.raw, x |-> x, reg |-> last.reg,
                    client |-> Search(ApplyDefaultModel(CallRequest(last.raw)), x),
                    out |-> HandleRequest(last.reg, last.raw,
                               [verr |-> NilErr,
                                client |-> ClientOutcomeOf(
                                    Search(ApplyDefaultModel(CallRequest(last.raw)), x))])]

ClientNext ==
    \/ DoSearchSend
    \/ DoSearchDo
    \/ DoSearch
    \/ DoSearchRequestToAPI
    \/ DoExecuteSearchCall
    \/ DoExecuteSearch
    \/ DoSearchCallLookup
    \/ DoSearchCall
    \/ DoRegisterToolMeanwhile

ClientSpec == ClientInit /\ [][ClientNext]_vars

(* ----------------- state machine of the concurrent calls -------------- *)

\* ExecuteTool is called and takes toolsLock for reading, which it is granted
\* unless a writer waits for the lock
LockCall(i) ==
    /\ calls[i].pc = "Idle"
    /\ ~WriterWaits(last)
    /\ \E args \in CallArgs(i) :
           calls' = [calls EXCEPT ![i] = LockedCall(calls[i], args)]
    /\ UNCHANGED <<tools, last>>

\* the lookup and RUnlock()
ReceiveCall(i) ==
    /\ calls[i].pc = "Locked"
    /\ calls' = [calls EXCEPT ![i] = ReceivedCall(calls[i], tools)]
    /\ UNCHANGED <<tools, last>>

\* the request is parsed and validated
ValidateCall(i) ==
    /\ calls[i].pc = "Received"
    /\ \E v \in Validate(ParseArgs(calls[i].args).request) :
           calls' = [calls EXCEPT ![i] = ValidatedCall(calls[i], ParseArgs(calls[i].args), v)]
    /\ UNCHANGED <<tools, last>>

\* Client.Search hands the payload to httpClient.Do
DispatchCall(i) ==
    /\ calls[i].pc = "Validated"
    /\ \E v \in Validate(calls[i].request), conv \in PayloadOf(calls, i) :
           calls' = [calls EXCEPT ![i] = DispatchedCall(calls[i], v, conv)]
    /\ UNCHANGED <<tools, last>>

\* httpClient.Do returns
CompleteCall(i) ==
    /\ calls[i].pc = "Dispatched"
    /\ \E h \in CallExchanges :
           calls' = [calls EXCEPT ![i] = CompletedCall(calls[i], h)]
    /\ UNCHANGED <<tools, last>>

\* ExecuteTool returns
RespondCall(i) ==
    /\ calls[i].pc \in {"Succeeded", "Failed"}
    /\ calls' = [calls EXCEPT ![i] = RespondedCall(calls[i])]
    /\ UNCHANGED <<tools, last>>

\* RegisterTool is called by another goroutine while calls are in flight, and
\* calls toolsLock.Lock()
LockLate ==
    /\ OtherIdle(last)
    /\ last' = [op |-> "RegisterToolLock"]
    /\ UNCHANGED <<tools, calls>>

\* toolsLock.Lock() is granted once no call holds the lock for reading; the
\* body of RegisterTool waits for nothing, and its return unlocks
RegisterLate ==
    /\ WriterWaits(last)
    /\ \A i \in Calls : ~ReadLocked(calls[i])
    /\ \E name \in {MockName, ToolNameSearch}, tool \in LateTools :
           /\ tools' = RegisterTool(tools, name, tool).tools
           /\ last' = [op |-> "RegisterTool"]
    /\ UNCHANGED calls

\* ListTools is called by the other goroutine while calls are in flight: its
\* RLock() is granted whatever the calls hold, since no writer waits, and it
\* waits for nothing before its return unlocks
ListLate ==
    /\ OtherIdle(last)
    /\ last' = [op |-> "ListTools", list |-> ListTools(tools), err |-> NilErr]
    /\ UNCHANGED <<tools, calls>>

ConcNext ==
    \/ \E i \in Calls : LockCall(i)
    \/ \E i \in Calls : ReceiveCall(i)
    \/ \E i \in Calls : ValidateCall(i)
    \/ \E i \in Calls : DispatchCall(i)
    \/ \E i \in Calls : CompleteCall(i)
    \/ \E i \in Calls : RespondCall(i)
    \/ LockLate
    \/ RegisterLate
    \/ ListLate

ConcSpec == Init /\ [][ConcNext]_vars

(* ------------------------------ claims -------------------------------- *)

IsHandle == last.op = "HandleRequest"

\* the single response of the last HandleRequest
Resp == last.out.responses[1]

\* the input is not a request envelope json.Unmarshal accepts
Unparseable(raw) ==
    \/ raw.syntax \in {"invalid", "other"}
    \/ raw.syntax = "object" /\ (raw.jsonrpc.t = "other" \/ raw.method.t = "other")

RawVersion(raw) == IF raw.syntax = "object" THEN raw.jsonrpc.v ELSE ""
RawMethod(raw) == IF raw.syntax = "object" THEN raw.method.v ELSE ""
CarriesId(raw) == raw.syntax = "object" /\ raw.id.t \in {"number", "string"}

NothingListedOrExecuted == last.out.eff.listed = 0 /\ last.out.eff.executed = <<>>

\* C1: every message handed to HandleRequest gets exactly one response; a
\* parsed request that carried an id gets a response with the same id, on
\* success and on every error path; unparseable input gets a response
\* without id.
C1_OneResponseSameId ==
    IsHandle =>
        /\ Len(last.out.responses) = 1
        /\ Unparseable(last.raw) => Resp.id = IdAbsent
        /\ (~Unparseable(last.raw) /\ CarriesId(last.raw)) => Resp.id = last.raw.id

\* C2: HandleRequest never returns a non-nil error and always returns one
\* JSON-RPC response: jsonrpc "2.0" with exactly one of result and error.
C2_AlwaysResponseNoError ==
    IsHandle =>
        /\ ~last.out.panic
        /\ last.out.err.isNil
        /\ Len(last.out.responses) = 1
        /\ Resp.jsonrpc = "2.0"
        /\ Resp.hasResult # Resp.hasError

\* C3: the error code is fixed by the first failing check in the order parse,
\* version, method: unparseable input gives -32700 without id; otherwise a
\* version other than "2.0" gives -32600 whatever the method; otherwise an
\* unknown method gives -32601; the registry is neither listed nor executed.
C3_FirstFailingCheck ==
    IsHandle =>
        /\ Unparseable(last.raw) =>
               /\ Len(last.out.responses) = 1
               /\ Resp.hasError /\ Resp.code = MCPErrorParseError
               /\ Resp.id = IdAbsent
               /\ NothingListedOrExecuted
        /\ (~Unparseable(last.raw) /\ RawVersion(last.raw) # "2.0") =>
               /\ Len(last.out.responses) = 1
               /\ Resp.hasError /\ Resp.code = MCPErrorInvalidRequest
               /\ NothingListedOrExecuted
        /\ (/\ ~Unparseable(last.raw)
            /\ RawVersion(last.raw) = "2.0"
            /\ RawMethod(last.raw) \notin {"tools/list", "tools/call"}) =>
               /\ Len(last.out.responses) = 1
               /\ Resp.hasError /\ Resp.code = MCPErrorMethodNotFound
               /\ NothingListedOrExecuted

\* a version "1.0" request for tools/list was answered with -32600
C3_Witness ==
    /\ IsHandle
    /\ last.raw.syntax = "object"
    /\ last.raw.jsonrpc = JString("1.0")
    /\ last.raw.method = JString("tools/list")
    /\ Resp.hasError /\ Resp.code = MCPErrorInvalidRequest
    /\ last.out.eff.listed = 0

\* the last request is a well-formed tools/call
IsToolCall ==
    /\ IsHandle
    /\ ~Unparseable(last.raw)
    /\ RawVersion(last.raw) = "2.0"
    /\ RawMethod(last.raw) = "tools/call"
    /\ UnmarshalToolCallParams(last.raw.params).ok

CallName == UnmarshalToolCallParams(last.raw.params).Name
CallEmptyName == IsToolCall /\ CallName = ""
CallUnregistered == IsToolCall /\ CallName # "" /\ CallName \notin DOMAIN tools
CallCapabilityFailed ==
    IsToolCall /\ CallName \in DOMAIN last.reg /\ ~last.out.eff.toolOut.err.isNil

\* C4: a tools/call that fails (empty tool name, unregistered tool, a
\* capability that returns an error, perplexity_search without query) is
\* answered with error code -32000 whose data is the text of the underlying
\* error, never with a result.
C4_FailedCallIsServerError ==
    (CallEmptyName \/ CallUnregistered \/ CallCapabilityFailed) =>
        /\ Len(last.out.responses) = 1
        /\ Resp.hasError /\ ~Resp.hasResult
        /\ Resp.code = MCPErrorServerError
        /\ Resp.hasData /\ Resp.data # <<>>
        /\ CallEmptyName => Resp.data = <<ErrInvalidRequest, ": tool name is required">>
        /\ CallUnregistered => \E i \in 1..Len(Resp.data) : Resp.data[i] = CallName
        /\ CallCapabilityFailed => IsSuffix(last.out.eff.toolOut.err.msg, Resp.data)

\* perplexity_search called with arguments {} was answered with -32000
C4_Witness ==
    /\ IsToolCall
    /\ CallName = ToolNameSearch
    /\ tools[ToolNameSearch].kind = "search"
    /\ last.raw.params.arguments = ArgsObject(EmptyArgs)
    /\ Resp.hasError /\ Resp.code = MCPErrorServerError
    /\ IsSuffix(<<": query must be a string">>, Resp.data)

\* C5: ExecuteTool on an unregistered name returns a non-nil error that is
\* ToolNotFound and a non-nil result with isError, and runs no capability.
C5_UnregisteredNotFound ==
    (last.op = "ExecuteTool" /\ last.name \notin DOMAIN last.reg) =>
        /\ ~last.out.panic
        /\ Is(last.out.err, ErrToolNotFound)
        /\ ~last.out.result.isNil
        /\ last.out.result.IsError
        /\ last.out.executed = <<>>
        /\ last.out.upstream = <<>>

\* an unknown name was executed on a registry that holds two capabilities
C5_Witness ==
    /\ last.op = "ExecuteTool"
    /\ last.name = "nonexistent_tool"
    /\ Cardinality(DOMAIN tools) = 2
    /\ last.args # EmptyArgs
    /\ Is(last.out.err, ErrToolNotFound)
    /\ last.out.result.IsError

\* C6: when a registered capability returns an error, ExecuteTool returns a
\* result with isError and an error that wraps the capability's error, so
\* every kind errors.Is finds in the capability's error is found in the
\* error ExecuteTool returns.
C6_CapabilityErrorWrapped ==
    (last.op = "ExecuteTool" /\ last.name \in DOMAIN last.reg /\ ~last.out.toolOut.err.isNil) =>
        /\ ~last.out.result.isNil
        /\ last.out.result.IsError
        /\ ~last.out.err.isNil
        /\ \A k \in last.out.toolOut.err.chain : Is(last.out.err, k)

InvalidRegistration ==
    /\ last.op = "RegisterTool"
    /\ (last.name = "" \/ last.tool.kind = "nil" \/ last.tool.name # last.name)

\* C7: a Register call with an empty name, a nil capability or a capability
\* whose own name differs from the key fails with InvalidRequest and leaves
\* the registry as it was.
C7_InvalidRegistrationRejected ==
    InvalidRegistration =>
        /\ Is(last.err, ErrInvalidRequest)
        /\ tools = last.before

\* a capability was offered under a key that is not its own name
C7_Witness ==
    /\ InvalidRegistration
    /\ last.name = ToolNameSearch
    /\ last.tool.kind = "mock"
    /\ last.tool.name = MockName
    /\ Is(last.err, ErrInvalidRequest)

Reregistration ==
    /\ last.op = "RegisterTool"
    /\ last.name # "" /\ last.tool.kind # "nil" /\ last.tool.name = last.name
    /\ last.name \in DOMAIN last.before

\* C8: registering under a name already registered succeeds and replaces the
\* entry: the tool count is unchanged, List has exactly one entry of that
\* name, with the new description and schema, and Execute runs the new
\* capability.
C8_ReregistrationReplaces ==
    Reregistration =>
        /\ last.err.isNil
        /\ Cardinality(DOMAIN tools) = Cardinality(DOMAIN last.before)
        /\ {i \in DOMAIN ListTools(tools) : i.Name = last.name} = {ToolInfo(last.tool)}
        /\ ListTools(tools)[ToolInfo(last.tool)] = 1
        /\ \A a \in ArgMaps : \A env \in EnvsForCall(tools, last.name, a) :
               ExecuteTool(tools, last.name, a, env).executed = <<last.tool>>

\* an entry was replaced by a capability with another description
C8_Witness ==
    /\ Reregistration
    /\ last.before[last.name].description # last.tool.description
    /\ last.err.isNil
    /\ tools[last.name] = last.tool

\* C9: List returns exactly one entry per registered name and nothing else,
\* and every entry carries the name it is registered under.
C9_ListMatchesRegistry ==
    last.op = "ListTools" =>
        /\ \A i \in DOMAIN last.list :
               /\ last.list[i] = 1
               /\ i.Name \in DOMAIN tools
               /\ i = ToolInfo(tools[i.Name])
        /\ \A n \in DOMAIN tools :
               /\ tools[n].name = n
               /\ \E i \in DOMAIN last.list : i.Name = n

\* the tools were listed while two capabilities were registered
C9_Witness ==
    /\ last.op = "ListTools"
    /\ Cardinality(DOMAIN tools) = 2
    /\ Cardinality(DOMAIN last.list) = 2

FailsValidation == last.op = "UseCaseExecute" /\ NilErr \notin Validate(last.request)

\* C10: a request that fails validation, a blank query included, is rejected
\* with InvalidRequest, gets no result, and no upstream call is attempted for
\* it.
C10_RejectedWithInvalidRequest ==
    FailsValidation =>
        /\ Is(last.out.err, ErrInvalidRequest)
        /\ last.out.result.isNil
        /\ last.out.upstream = <<>>

IsValidate == last.op = "Validate"

\* C11: Validate rejects with InvalidRequest every blank query and every
\* query of more than 10,000 characters, and accepts a non-blank query of
\* exactly 10,000 characters, counted as the maxLength of the input schema
\* counts them, when the other fields are valid.
C11_QueryBoundsInCharacters ==
    IsValidate =>
        /\ last.request.Query.blank => Is(last.err, ErrInvalidRequest)
        /\ last.request.Query.chars > MaxQueryLength => Is(last.err, ErrInvalidRequest)
        /\ (/\ ~last.request.Query.blank
            /\ last.request.Query.chars = MaxQueryLength
            /\ [last.request EXCEPT !.Query = QOk1] = BaseRequest) => last.err.isNil

\* the query of the last validated request passes the checks of the query
QueryPasses == IsValidate /\ ~last.request.Query.blank /\ ~QueryTooLong(last.request.Query)

\* the conditions of C12 on every field but the options' keys and values
FieldsInBounds(r) ==
    /\ r.Model \in ValidSonarModels \cup {""}
    /\ r.SearchMode \in ValidSearchModes \cup {""}
    /\ r.DateRange \in ValidDateRanges \cup {""}
    /\ r.MaxTokens >= 0 /\ r.MaxTokens <= MaxTokensLimit
    /\ r.SourcesCount <= MaxSourcesCount
    /\ Cardinality(r.Options) <= MaxOptionsCount

\* C12: a request with a valid query is accepted iff every field is in
\* bounds, with every option key of at most 100 and every option value of at
\* most 1,000 characters, counted as the query's are; every rejection is an
\* InvalidRequest.
C12_AcceptedIffInBoundsCharacters ==
    QueryPasses =>
        /\ last.err.isNil <=>
               /\ FieldsInBounds(last.request)
               /\ \A e \in last.request.Options :
                      e.key.chars <= MaxOptionKeyLength /\ e.val.chars <= MaxOptionValueLength
        /\ ~last.err.isNil => Is(last.err, ErrInvalidRequest)

(* ------------------------ claims on the adapter ----------------------- *)

\* C13: a request with an empty model is accepted, and the payload sent
\* upstream for it carries the default model the ConfigProvider holds.
C13_EmptyModelGetsConfiguredDefault ==
    (/\ last.op = "ExecuteSearch"
     /\ last.request.Model = ""
     /\ last.verr.isNil) =>
        /\ ~Is(last.out.err, ErrInvalidRequest)
        /\ Len(last.out.sent) = 1
        /\ last.out.sent[1].Model = last.cfg

\* the last operation is a Search whose request reached the upstream and
\* whose response was read to its end
ResponseRead ==
    /\ last.op = "Search"
    /\ Len(last.out.sent) = 1
    /\ ~last.x.http.doFails /\ ~last.x.http.readFails

\* s holds t as a run of consecutive tokens
Contains(s, t) ==
    \E i \in 1..(Len(s) - Len(t) + 1) : SubSeq(s, i, i + Len(t) - 1) = t

\* the error kind the status code determines
KindFor(statusCode) ==
    IF statusCode = StatusBadRequest THEN ErrInvalidRequest
    ELSE IF statusCode = StatusUnauthorized THEN ErrAPIKeyMissing
    ELSE IF statusCode = StatusTooManyRequests THEN ErrRateLimited
    ELSE ErrAPIError

\* the error says the response was too large
TooLargeError(err) == Contains(err.msg, <<": response too large (exceeded ">>)

\* C14: a response body of 10 MiB or more is never returned as a result:
\* Search fails with an APIError "response too large", also when the body is
\* exactly 10 MiB long; a shorter body is processed by its status and its
\* content, a 200 JSON body giving a result.
C14_BodyAtCapIsAPIError ==
    ResponseRead =>
        /\ last.x.http.size >= MaxResponseSize =>
               /\ last.out.result.isNil
               /\ Is(last.out.err, ErrAPIError)
               /\ TooLargeError(last.out.err)
        /\ last.x.http.size < MaxResponseSize =>
               /\ ~TooLargeError(last.out.err)
               /\ (last.x.http.status = StatusOK /\ last.x.http.body # "text") =>
                      ~last.out.result.isNil /\ last.out.err.isNil
               /\ (last.x.http.status = StatusOK /\ last.x.http.body = "text") =>
                      last.out.result.isNil /\ Is(last.out.err, ErrAPIError)
               /\ last.x.http.status # StatusOK =>
                      /\ last.out.result.isNil
                      /\ Is(last.out.err, KindFor(last.x.http.status))

\* a 200 response whose body is exactly 10 MiB long gave an APIError
C14_Witness ==
    /\ ResponseRead
    /\ last.x.http.size = MaxResponseSize
    /\ last.x.http.status = StatusOK
    /\ last.x.http.body = "response"
    /\ last.out.result.isNil
    /\ Is(last.out.err, ErrAPIError)

\* the statuses whose error echoes the status code
EchoedStatus(statusCode) ==
    statusCode \notin {StatusBadRequest, StatusUnauthorized, StatusTooManyRequests,
                       StatusInternalServerError, StatusBadGateway, StatusServiceUnavailable}

Non2xx(statusCode) == statusCode < 200 \/ statusCode > 299

\* Search failed with the kind of the status code and nothing else
FailedByStatus ==
    /\ last.out.result.isNil
    /\ last.out.err.chain = {KindFor(last.x.http.status)}
    /\ EchoedStatus(last.x.http.status) =>
           \E i \in 1..Len(last.out.err.msg) :
               last.out.err.msg[i] = ToString(last.x.http.status)

\* C15 as stated: for every non-2xx upstream response Search fails with the
\* error the status code determines (400 InvalidRequest, 401 AuthError, 429
\* RateLimited, 5xx APIError, any other APIError echoing the status), whether
\* or not the body is a structured error envelope.
C15_EveryNon2xxMappedByStatus ==
    (ResponseRead /\ Non2xx(last.x.http.status)) => FailedByStatus

\* C15 amended: the same for every non-2xx upstream response whose body is
\* shorter than the 10 MiB cap.
C15_Non2xxBelowCapMappedByStatus ==
    (/\ ResponseRead
     /\ Non2xx(last.x.http.status)
     /\ last.x.http.size < MaxResponseSize) => FailedByStatus

\* a 401 response whose body is not JSON gave the authentication error
C15_Witness ==
    /\ ResponseRead
    /\ last.x.http.status = StatusUnauthorized
    /\ last.x.http.body = "text"
    /\ Is(last.out.err, ErrAPIKeyMissing)
    /\ last.out.result.isNil

\* C16: when the upstream call does not complete, Search returns no result,
\* TimeoutError exactly when the context deadline was exceeded and
\* NetworkError for every other failure, external cancellation included.
C16_TimeoutIffDeadlineExceeded ==
    (/\ last.op = "Search"
     /\ Len(last.out.sent) = 1
     /\ (last.x.http.doFails \/ last.x.http.readFails)) =>
        /\ last.out.result.isNil
        /\ Is(last.out.err, ErrTimeout) <=> last.x.http.ctxErr = "deadline"
        /\ Is(last.out.err, ErrNetworkError) <=> last.x.http.ctxErr # "deadline"

\* an entry whose value is longer than 1,000 bytes
Oversized(e) == e.val.len > MaxOptionValueLength

\* C17: an option that fails its own bound is dropped and the request still
\* goes upstream; the only option defect that fails the whole request is an
\* oversized option value.
C17_DefectiveOptionsDropped ==
    /\ last.op = "SearchRequestToAPI" =>
           /\ ~last.out.err.isNil => \E e \in last.request.Options : Oversized(e)
           /\ last.out.err.isNil =>
                  /\ last.out.apiReq.SearchDomainFilter.n <= MaxFilterDomains
                  /\ last.out.apiReq.Temperature.set =>
                         InRange(last.out.apiReq.Temperature.v, 2)
                  /\ last.out.apiReq.TopP.set =>
                         InRange(last.out.apiReq.TopP.v, 1)
                  /\ last.out.apiReq.SearchMode \in ValidSearchModes \cup {""}
    /\ (/\ last.op = "Search"
         /\ last.x.verr.isNil
         /\ \A e \in last.request.Options : ~Oversized(e)) =>
           Len(last.out.sent) = 1

\* the body the upstream sent, as text
RawBody(http) ==
    IF http.body = "nested"
    THEN <<"{\"error\":{\"error\":{\"message\":\"">> \o http.message \o <<"\"}}}">>
    ELSE IF http.body = "flat"
    THEN <<"{\"error\":{\"message\":\"">> \o http.message \o <<"\"}}">>
    ELSE IF http.body = "text" THEN http.message
    ELSE <<"{\"id\":\"id-1\"}">>

\* C20: the data of an error response holds error message text only: neither
\* the body the upstream sent nor the API key appears in it, whatever the
\* upstream returns.
C20_NoBodyNoCredentialInData ==
    (last.op = "SearchCall" /\ Resp.hasError) =>
        /\ Resp.hasData
        /\ \A i \in 1..Len(Resp.data) : Resp.data[i] # APIKey
        /\ (~last.x.http.doFails /\ RawBody(last.x.http) # <<>>) =>
               ~Contains(Resp.data, RawBody(last.x.http))

(* -------------------- claims on the concurrent calls ------------------ *)

\* call i carries its own query and has been answered
Answered(i) ==
    /\ calls[i].pc = "Responded"
    /\ calls[i].tool = SearchTool
    /\ calls[i].args.query.v = CallQuery(i)

\* what the upstream answered to call i, as makeRequest returns it
OwnAnswer(i) == MakeRequest(calls[i].sent[1], calls[i].http)

\* C18: concurrent tools/call executions with distinct queries on one server
\* do not interfere: every answered call made exactly one upstream call, for
\* its own query; it succeeded iff its own upstream call did, with a result
\* holding the answer to its own query and the query of no other call, and
\* when it failed the error is the one of its own upstream call.
C18_ConcurrentCallsDoNotInterfere ==
    \A i \in Calls :
        Answered(i) =>
            /\ calls[i].attempts = 1
            /\ Len(calls[i].sent) = 1
            /\ calls[i].sent[1].Messages = <<APIMessage("user", CallQuery(i).text)>>
            /\ calls[i].out.err.isNil <=> OwnAnswer(i).err.isNil
            /\ calls[i].out.err.isNil =>
                   /\ ~calls[i].out.result.IsError
                   /\ Contains(calls[i].out.result.Content,
                               <<"answer to ", CallQuery(i).text>>)
                   /\ \A j \in Calls \ {i} :
                          ~Contains(calls[i].out.result.Content, <<CallQuery(j).text>>)
            /\ ~calls[i].out.err.isNil =>
                   /\ calls[i].out.result.IsError
                   /\ Is(calls[i].out.err, ErrToolExecution)
                   /\ Contains(calls[i].out.err.msg, OwnAnswer(i).err.msg)

\* every call was answered, the first with a result and the second with the
\* error of its own upstream call
C18_Witness ==
    /\ \A i \in Calls : Answered(i)
    /\ calls[1].out.err.isNil
    /\ ~calls[1].out.result.IsError
    /\ calls[2].http.status = StatusTooManyRequests
    /\ Is(calls[2].out.err, ErrToolExecution)

\* the positions of a call, in the order it goes through them
Position ==
    ("Idle" :> 0 @@ "Locked" :> 1 @@ "Received" :> 2 @@ "Validated" :> 3
     @@ "Dispatched" :> 4 @@ "Succeeded" :> 5 @@ "Failed" :> 5 @@ "Responded" :> 6)

\* the steps of one call: the lookup under the lock that makes it Received,
\* the path Received, Validated, Dispatched, Succeeded or Failed, Responded,
\* and the answer to a request that was rejected before it was validated
CallStep(from, to) ==
    \/ from = "Idle" /\ to = "Locked"
    \/ from = "Locked" /\ to = "Received"
    \/ from = "Received" /\ to \in {"Validated", "Responded"}
    \/ from = "Validated" /\ to = "Dispatched"
    \/ from = "Dispatched" /\ to \in {"Succeeded", "Failed"}
    \/ from \in {"Succeeded", "Failed"} /\ to = "Responded"

\* C19: a call, Received once its lookup under the lock is done, goes through
\* Received, Validated, Dispatched, Succeeded or Failed, Responded in this
\* order and never back; it makes at most one
\* upstream attempt, one exactly once it was dispatched; and from Failed its
\* only step is to Responded, with an error result and no further attempt.
C19_OnePassNoRetry ==
    [][\A i \in Calls :
           calls'[i] # calls[i] =>
               /\ CallStep(calls[i].pc, calls'[i].pc)
               /\ Position[calls'[i].pc] > Position[calls[i].pc]
               /\ calls'[i].attempts <= 1
               /\ calls'[i].attempts = IF Position[calls'[i].pc] >= 4
                                           /\ Len(calls'[i].sent) = 1 THEN 1 ELSE 0
               /\ calls[i].pc = "Failed" =>
                      /\ calls'[i].pc = "Responded"
                      /\ calls'[i].attempts = calls[i].attempts
                      /\ calls'[i].out.result.IsError
                      /\ ~calls'[i].out.err.isNil]_vars

\* a call whose one upstream attempt timed out was answered with an error
C19_Witness ==
    \E i \in Calls :
        /\ calls[i].pc = "Responded"
        /\ calls[i].http.doFails
        /\ calls[i].attempts = 1
        /\ Is(calls[i].client.err, ErrTimeout)
        /\ calls[i].out.result.IsError

(* ------------------- claims on dispatcher and registry ---------------- *)

\* C26: a tools/call that names an unregistered tool is answered with the
\* error text "tool not found: <name>", not with a "tool execution failed"
\* text.
C26_UnknownToolReportedAsNotFound ==
    (IsHandle /\ CallUnregistered) =>
        /\ Len(last.out.responses) = 1
        /\ Resp.hasError
        /\ Resp.data = <<"tool not found: " \o CallName>>

\* C27: ExecuteTool never crashes and always returns a non-nil ToolResult,
\* whatever the capability returned, and a non-nil error comes with a result
\* flagged isError.
C27_ExecuteToolAlwaysReturnsResult ==
    last.op = "ExecuteTool" =>
        /\ ~last.out.panic
        /\ ~last.out.result.isNil
        /\ ~last.out.err.isNil => last.out.result.IsError

\* C30: translating a request yields one outcome only, the same payload or the
\* same error whatever the order in which the entries of the options map are
\* visited, also when two keys differ only in letter case.
C30_PayloadIsFunctionOfRequest ==
    last.op = "SearchRequestToAPI" =>
        SearchRequestToAPI(last.request) = {last.out}

(* ---------------------- claims on the upstream client ------------------ *)

\* the error of a body that reached the cap, the same for every response
TooLargeErr ==
    ErrorfW(ErrAPIError, <<": response too large (exceeded ",
                           ToString(MaxResponseSize), " bytes)">>)

\* C28: the size cap is enforced before the status code is handled: a response
\* whose body reaches the cap gives the APIError "response too large" whatever
\* its status, and neither the status nor the content of the body has any part
\* in the outcome.
C28_CapEnforcedBeforeStatus ==
    (ResponseRead /\ last.x.http.size >= MaxResponseSize) =>
        /\ last.out.result.isNil
        /\ last.out.err = TooLargeErr
        /\ \A h \in Exchanges :
               (~h.readFails /\ ~h.doFails /\ h.size >= MaxResponseSize) =>
                   MakeRequest(last.out.sent[1], h) =
                       MakeRequest(last.out.sent[1], last.x.http)

\* a 429 response whose body reached the cap gave "response too large", not
\* the rate limit error
C28_Witness ==
    /\ ResponseRead
    /\ last.x.http.size >= MaxResponseSize
    /\ last.x.http.status = StatusTooManyRequests
    /\ last.out.err = TooLargeErr
    /\ ~Is(last.out.err, ErrRateLimited)

\* the payload p is well-formed for the request it was built from
WellFormedPayload(p, request) ==
    /\ p.Model \in ValidSonarModels
    /\ p.SearchMode \in ValidSearchModes \cup {""}
    /\ p.SearchDomainFilter.n <= MaxFilterDomains
    /\ p.SearchDomainFilter.n = 0 <=> p.SearchDomainFilter.origin = "none"
    /\ p.Messages = <<APIMessage("user", request.Query.text)>>
    /\ ~request.Query.blank
    /\ ~QueryTooLong(request.Query)

\* C29: every payload Search hands to the upstream is well-formed: its model
\* is one of the five Sonar models, its search mode is empty or web, academic
\* or news, its domain filter holds at most 10 entries, and its one message has
\* the role user and the validated query as content.
C29_SentPayloadsWellFormed ==
    last.op = "Search" =>
        \A i \in 1..Len(last.out.sent) : WellFormedPayload(last.out.sent[i], last.request)

\* a request without a model and with a domain filter option of 10 entries was
\* sent with the default model and the 10 entries
C29_Witness ==
    /\ last.op = "Search"
    /\ last.request.Model = ""
    /\ Len(last.out.sent) = 1
    /\ last.out.sent[1].Model = DefaultModel
    /\ last.out.sent[1].SearchDomainFilter.n = MaxFilterDomains
    /\ last.out.sent[1].Messages[1].Content = last.request.Query.text

(* ------------------------ claims on the registry ----------------------- *)

\* C23: only a registration changes the registry: a step of ExecuteTool,
\* ListTools, Start or HandleRequest, also one whose call failed, timed out or
\* was cancelled, leaves the registered tools as they were, and a step that
\* changes them is a RegisterTool that returned no error, be it called
\* between two calls or while a call is pending.
C23_OnlyRegisterChangesRegistry ==
    [][/\ last'.op \in {"ExecuteToolLookup", "ExecuteTool", "ListTools", "Start",
                        "HandleRequestLookup", "HandleRequest",
                        "UseCaseExecuteCall", "UseCaseExecute"} /\ last' # last =>
              tools' = tools
       /\ tools' # tools =>
              /\ last'.op = "RegisterTool" \/ (Pending(last) /\ last' = last)
              /\ \E name \in RegNames, tool \in RegTools :
                     /\ RegisterTool(tools, name, tool).err.isNil
                     /\ tools' = RegisterTool(tools, name, tool).tools
                     /\ \A n \in DOMAIN tools \ {name} :
                            n \in DOMAIN tools' /\ tools'[n] = tools[n]]_vars

\* an ExecuteTool of a registered tool timed out and the tool is still
\* registered
C23_Witness ==
    /\ last.op = "ExecuteTool"
    /\ last.registered
    /\ Is(last.out.toolOut.err, ErrTimeout)
    /\ ~last.out.err.isNil
    /\ last.name \in DOMAIN tools
    /\ tools = last.reg

\* the registry no longer holds under its name the capability call i looked up
ReplacedMeanwhile(i) == tools[calls[i].tool.name] # calls[i].tool

\* the call is between its lookup and its return: its capability executes
\* or its upstream call is in flight
InFlight(c) == c.pc \in {"Received", "Validated", "Dispatched", "Succeeded", "Failed"}

\* C22: the registry lock is not held while a capability executes or an
\* upstream call is in flight: no call between its lookup and its return holds
\* toolsLock; a registration that waits for the lock is granted it as soon as
\* no call is inside its lookup, however many calls are blocked upstream, and
\* a ListTools can be issued and completes in any such state; and a call that
\* returned was answered by the capability it looked up, also when the name
\* was given to another capability meanwhile.
C22_LockNotHeldDuringExecution ==
    /\ \A i \in Calls : InFlight(calls[i]) => ~ReadLocked(calls[i])
    /\ (WriterWaits(last) /\ \A i \in Calls : calls[i].pc # "Locked") => ENABLED RegisterLate
    /\ OtherIdle(last) => (ENABLED LockLate /\ ENABLED ListLate)
    /\ \A i \in Calls :
           calls[i].pc = "Responded" =>
               /\ ~ReadLocked(calls[i])
               /\ calls[i].out.executed = <<calls[i].tool>>
               /\ calls[i].tool.kind = "mock" =>
                      /\ calls[i].attempts = 0
                      /\ calls[i].out.result = calls[i].tool.out.result
               /\ (calls[i].tool.kind = "search" /\ calls[i].attempts = 1) =>
                      (calls[i].out.err.isNil <=> calls[i].client.err.isNil)

\* while one call was blocked upstream with the search tool it looked up, the
\* search tool was replaced by another capability and the tools were listed
\* with the replacement among them, and another call that had looked up the
\* search tool returned its result
C22_Witness ==
    \E i, j \in Calls :
        /\ calls[i].pc = "Responded"
        /\ calls[i].attempts = 1
        /\ calls[i].tool = SearchTool
        /\ ReplacedMeanwhile(i)
        /\ calls[i].out.err.isNil
        /\ calls[i].out.executed = <<SearchTool>>
        /\ calls[j].pc = "Dispatched"
        /\ calls[j].tool = SearchTool
        /\ last.op = "ListTools"
        /\ last.list = ListTools(tools)

(* --------------------- the response mapping in full -------------------- *)

\* the longest array of choices, citations or sources tried
MaxItems == 2

\* a Go slice: nil, or items
Slice(isNil, items) == [isNil |-> isNil, items |-> items]
NilSlice == Slice(TRUE, <<>>)

\* an APICitation and an APISource of the upstream response
APICitation(number, url, title) == [Number |-> number, URL |-> url, Title |-> title]
APISource(url, title, snippet) == [URL |-> url, Title |-> title, Snippet |-> snippet]

APICitations ==
    {APICitation(1, "https://example.com/research1", "Research Paper 1"),
     APICitation(2, "https://example.com/research2", "Research Paper 2")}

APISources ==
    {APISource("https://source1.com", "Source 1", "This is a snippet from source 1"),
     APISource("https://source2.com", "Source 2", "This is a snippet from source 2")}

ChoiceContents == {<<>>, <<"According to recent research...">>}

\* the sequences over elems of at most n elements
SeqsUpTo(elems, n) == UNION {[1..k -> elems] : k \in 0..n}

\* the arrays json.Unmarshal leaves in a field tagged omitempty: nil when the
\* key is absent, else the elements, none for an empty array
Slices(elems) ==
    {NilSlice} \cup {Slice(FALSE, items) : items \in SeqsUpTo(elems, MaxItems)}

\* an APIChatResponse with its arrays
APIChatResponse(id, model, choices, citations, sources) ==
    [ID |-> id, Model |-> model, Choices |-> choices, Usage |-> Usage(10, 20, 30),
     Citations |-> citations, Sources |-> sources, Created |-> 2024]

APIChatResponses ==
    {APIChatResponse("test-id-123", "sonar", ch, c, s) :
        ch \in SeqsUpTo(ChoiceContents, MaxItems),
        c \in Slices(APICitations), s \in Slices(APISources)}

\* "Convert citations" allocating with make([]domain.Citation, len) and then
\* appending the converted elements
ConvertCitationsAppending(citations) ==
    IF Len(citations.items) > 0
    THEN Slice(FALSE,
               [i \in 1..Len(citations.items) |-> APICitation(0, "", "")]
               \o [i \in 1..Len(citations.items) |->
                      [Number |-> citations.items[i].Number,
                       URL |-> citations.items[i].URL,
                       Title |-> citations.items[i].Title]])
    ELSE NilSlice

\* "Convert citations": result.Citations stays nil unless there is an element
ConvertCitations(citations) ==
    IF Len(citations.items) > 0
    THEN Slice(FALSE,
               [i \in 1..Len(citations.items) |->
                   [Number |-> citations.items[i].Number,
                    URL |-> citations.items[i].URL,
                    Title |-> citations.items[i].Title]])
    ELSE NilSlice

\* "Convert sources": result.Sources stays nil unless there is an element
ConvertSources(sources) ==
    IF Len(sources.items) > 0
    THEN Slice(FALSE,
               [i \in 1..Len(sources.items) |->
                   [URL |-> sources.items[i].URL,
                    Title |-> sources.items[i].Title,
                    Snippet |-> sources.items[i].Snippet]])
    ELSE NilSlice

\* APIResponseToSearchResult with the elements of the arrays
APIResponseToSearchResultFull(apiResp) ==
    [ID |-> apiResp.ID, Content |-> GetContent(apiResp), Model |-> apiResp.Model,
     Usage |-> Usage(apiResp.Usage.PromptTokens, apiResp.Usage.CompletionTokens,
                     apiResp.Usage.TotalTokens),
     Citations |-> ConvertCitations(apiResp.Citations),
     Sources |-> ConvertSources(apiResp.Sources),
     Created |-> GetCreatedTime(apiResp)]

MapperInit ==
    /\ tools = NewServer
    /\ last = [op |-> "NewMapper"]
    /\ calls = [i \in Calls |-> IdleCall]

DoAPIResponseToSearchResult ==
    /\ UNCHANGED <<tools, calls>>
    /\ \E apiResp \in APIChatResponses :
           last' = [op |-> "APIResponseToSearchResult", apiResp |-> apiResp,
                    out |-> APIResponseToSearchResultFull(apiResp)]

MapperNext == DoAPIResponseToSearchResult

MapperSpec == MapperInit /\ [][MapperNext]_vars

(* ------------------- claims on the response mapping -------------------- *)

\* the array to is the array from, element by element, or nil when from has
\* no element
CopiedInOrder(from, to, fields) ==
    /\ Len(to.items) = Len(from.items)
    /\ \A i \in 1..Len(from.items) :
           \A f \in fields : to.items[i][f] = from.items[i][f]
    /\ Len(from.items) = 0 => to = NilSlice

\* C24: the mapped result has the message text of the first choice as
\* content, the empty string when there is no choice; its citations and
\* sources are those of the response, element by element in the same order
\* and number; an absent or empty array gives none, with no placeholder.
C24_ResponseMappedElementwise ==
    last.op = "APIResponseToSearchResult" =>
        /\ last.out.Content = IF Len(last.apiResp.Choices) = 0 THEN <<>>
                              ELSE last.apiResp.Choices[1]
        /\ CopiedInOrder(last.apiResp.Citations, last.out.Citations,
                         {"Number", "URL", "Title"})
        /\ CopiedInOrder(last.apiResp.Sources, last.out.Sources,
                         {"URL", "Title", "Snippet"})

\* a response without choices, with two citations, the second first, and an
\* empty array of sources was mapped to an empty content, the two citations
\* in that order and no sources
C24_Witness ==
    /\ last.op = "APIResponseToSearchResult"
    /\ last.apiResp.Choices = <<>>
    /\ last.out.Content = <<>>
    /\ Len(last.apiResp.Citations.items) = 2
    /\ last.out.Citations.items[1].Number = 2
    /\ last.out.Citations.items[2].Number = 1
    /\ last.apiResp.Sources = Slice(FALSE, <<>>)
    /\ last.out.Sources = NilSlice

(* ------------------------- deadlines of a call ------------------------- *)

\* mcp.DefaultTimeout and perplexity.DefaultTimeout, in seconds
DefaultTimeout == 30

\* a context: has tells whether it carries a deadline, at the seconds left
\* until it when the call enters
Ctx(has, at) == [has |-> has, at |-> at]
Background == Ctx(FALSE, 0)

\* the contexts a caller hands in
CallerContexts == {Background} \cup {Ctx(TRUE, d) : d \in {1, 10, 30, 45, 60, 120}}

\* REQUEST_TIMEOUT_SECONDS as configured
RequestTimeouts == {10, 30, 45, 60}

Earlier(a, b) == IF a <= b THEN a ELSE b

\* context.WithTimeout(ctx, timeout): the earlier of the two deadlines
WithTimeout(ctx, timeout) ==
    IF ctx.has THEN Ctx(TRUE, Earlier(ctx.at, timeout)) ELSE Ctx(TRUE, timeout)

\* "if _, hasDeadline := ctx.Deadline(); !hasDeadline" followed by
\* context.WithTimeout(ctx, timeout)
WithTimeoutIfNone(ctx, timeout) == IF ~ctx.has THEN WithTimeout(ctx, timeout) ELSE ctx

\* NewClient(apiKey, logger, WithTimeout(requestTimeout)): the http.Client is
\* built with Timeout DefaultTimeout, the option sets the field timeout only
NewClient(requestTimeout) ==
    [httpTimeout |-> DefaultTimeout, timeout |-> requestTimeout]

\* NewClient with WithHTTPClient(custom): a client without a Timeout of its own
NewClientWithHTTPClient(requestTimeout) ==
    [httpTimeout |-> 0, timeout |-> requestTimeout]

Clients(requestTimeout) ==
    {NewClient(requestTimeout), NewClientWithHTTPClient(requestTimeout)}

\* httpClient.Do(httpReq): the seconds after which the exchange is cut, the
\* deadline of the request's context or, if earlier, the Timeout of the
\* http.Client
HTTPLimit(client, ctx) ==
    IF client.httpTimeout > 0 THEN Earlier(ctx.at, client.httpTimeout) ELSE ctx.at

\* makeRequest(ctx, apiReq): the context of the request and the limit of the
\* exchange
MakeRequestDeadline(client, ctx) ==
    [atUpstream |-> WithTimeoutIfNone(ctx, client.timeout),
     limit |-> HTTPLimit(client, WithTimeoutIfNone(ctx, client.timeout))]

\* SearchUseCase.Execute(ctx, request): the context handed to Client.Search
UseCaseDeadline(ctx, requestTimeout) == WithTimeoutIfNone(ctx, requestTimeout)

\* Server.ExecuteTool(ctx, name, args): the context handed to tool.Execute
ExecuteToolDeadline(ctx) == WithTimeoutIfNone(ctx, DefaultTimeout)

\* a call that enters at the layer op with the context ctx: pc is the layer
\* it has reached, atTool the context handed to tool.Execute, atClient the one
\* handed to Client.Search and up the deadline of the exchange, each the
\* context it came in with until its layer has derived it
EnterAt(op, ctx, requestTimeout, client) ==
    [op |-> op, pc |-> "entered", ctx |-> ctx, requestTimeout |-> requestTimeout,
     client |-> client, atTool |-> ctx, atClient |-> ctx,
     up |-> [atUpstream |-> ctx, limit |-> 0]]

DeadlineInit ==
    /\ tools = NewServer
    /\ last = [op |-> "NewServer"]
    /\ calls = [i \in Calls |-> IdleCall]

\* no call is under way
DeadlineIdle == IF last.op = "NewServer" THEN TRUE ELSE last.pc = "returned"

\* a call is under way and has reached the layer pc
DeadlineAt(pc) == last.op # "NewServer" /\ last.pc = pc

\* a tools/call of the search tool through ExecuteTool, up to tool.Execute
DoExecuteToolDeadline ==
    /\ DeadlineIdle
    /\ UNCHANGED <<tools, calls>>
    /\ \E ctx \in CallerContexts, t \in RequestTimeouts :
           \E client \in Clients(t) :
               last' = [EnterAt("ExecuteToolDeadline", ctx, t, client) EXCEPT
                            !.pc = "tool", !.atTool = ExecuteToolDeadline(ctx),
                            !.atClient = ExecuteToolDeadline(ctx),
                            !.up.atUpstream = ExecuteToolDeadline(ctx)]

\* SearchUseCase.Execute up to client.Search, called by the search tool with
\* the context of ExecuteTool or by a caller with its own
DoUseCaseDeadline ==
    /\ UNCHANGED <<tools, calls>>
    /\ \/ /\ DeadlineAt("tool")
          /\ last' = [last EXCEPT
                          !.pc = "usecase",
                          !.atClient = UseCaseDeadline(last.atTool, last.requestTimeout),
                          !.up.atUpstream = UseCaseDeadline(last.atTool, last.requestTimeout)]
       \/ /\ DeadlineIdle
          /\ \E ctx \in CallerContexts, t \in RequestTimeouts :
                 \E client \in Clients(t) :
                     last' = [EnterAt("UseCaseDeadline", ctx, t, client) EXCEPT
                                  !.pc = "usecase", !.atClient = UseCaseDeadline(ctx, t),
                                  !.up.atUpstream = UseCaseDeadline(ctx, t)]

\* Client.Search up to httpClient.Do in makeRequest, called by the use case
\* with its context or by a caller with its own
DoSearchDeadline ==
    /\ UNCHANGED <<tools, calls>>
    /\ \/ /\ DeadlineAt("usecase")
          /\ last' = [last EXCEPT !.pc = "upstream",
                                  !.up = MakeRequestDeadline(last.client, last.atClient)]
       \/ /\ DeadlineIdle
          /\ \E ctx \in CallerContexts, t \in RequestTimeouts :
                 \E client \in Clients(t) :
                     last' = [EnterAt("SearchDeadline", ctx, t, client) EXCEPT
                                  !.pc = "upstream", !.up = MakeRequestDeadline(client, ctx)]

\* httpClient.Do returns, and with it every layer of the call
DoDeadlineReturn ==
    /\ DeadlineAt("upstream")
    /\ UNCHANGED <<tools, calls>>
    /\ last' = [last EXCEPT !.pc = "returned"]

DeadlineNext ==
    \/ DoExecuteToolDeadline
    \/ DoUseCaseDeadline
    \/ DoSearchDeadline
    \/ DoDeadlineReturn

DeadlineSpec == DeadlineInit /\ [][DeadlineNext]_vars

(* ------------------------- claims on deadlines ------------------------- *)

\* a call whose exchange with the upstream has begun
IsDeadlineOp ==
    /\ last.op \in {"ExecuteToolDeadline", "UseCaseDeadline", "SearchDeadline"}
    /\ last.pc \in {"upstream", "returned"}

\* the timeout the layer the call entered at applies to a context without a
\* deadline
EntryTimeout ==
    IF last.op = "ExecuteToolDeadline" THEN DefaultTimeout
    ELSE IF last.op = "UseCaseDeadline" THEN last.requestTimeout
    ELSE last.client.timeout

\* C21: every capability execution and every upstream call runs under a
\* deadline: a context without one gets the default timeout of the layer it
\* enters at before anything is dispatched, and a deadline that is there is the
\* one the capability and the upstream call run under, neither extended nor
\* replaced by a lower layer.
C21_CallsRunUnderCallersDeadline ==
    IsDeadlineOp =>
        /\ last.op = "ExecuteToolDeadline" => last.atTool.has
        /\ last.atClient.has \/ last.op = "SearchDeadline"
        /\ last.up.atUpstream.has
        /\ ~last.ctx.has =>
               /\ last.up.atUpstream = Ctx(TRUE, EntryTimeout)
               /\ last.up.limit = EntryTimeout
        /\ last.ctx.has =>
               /\ last.atTool = last.ctx
               /\ last.atClient = last.ctx
               /\ last.up.atUpstream = last.ctx
               /\ last.up.limit = last.ctx.at

(* --------------------------- run and shutdown -------------------------- *)

\* ShutdownTimeout, in seconds
ShutdownTimeout == 10

\* make(chan os.Signal, 1) and make(chan error, 1)
ChanCap == 1

\* SIGINT and SIGTERM as signal.Notify delivers them
Signals == {"interrupt", "terminated"}

\* the state of run: pc is the position of run, server that of the goroutine
\* it starts, sigChan and serverErrChan the contents of the two channels, got
\* the signal run received, cancelled whether shutdownCtx is done, clock the
\* seconds since the shutdown timer was started and ret what run returned
Run(pc, server, sigChan, serverErrChan, got, cancelled, clock, ret) ==
    [op |-> "run", pc |-> pc, server |-> server, sigChan |-> sigChan,
     serverErrChan |-> serverErrChan, got |-> got, cancelled |-> cancelled,
     clock |-> clock, ret |-> ret]

RunInit ==
    /\ tools = NewServer
    /\ last = Run("wiring", "none", <<>>, <<>>, "none", FALSE, 0, NilErr)
    /\ calls = [i \in Calls |-> IdleCall]

\* wireDependencies and the start of the server goroutine: NewClient fails
\* without an API key
DoWireDependencies ==
    /\ last.op = "run" /\ last.pc = "wiring"
    /\ UNCHANGED <<tools, calls>>
    /\ \E apiKey \in {"", APIKey} :
           last' = IF apiKey = ""
                   THEN [last EXCEPT !.pc = "returned",
                                     !.ret = ErrorfPrefixW("failed to wire dependencies: ",
                                                ErrorfPrefixW("failed to create Perplexity client: ",
                                                              Sentinel(ErrAPIKeyMissing)))]
                   ELSE [last EXCEPT !.pc = "serving", !.server = "starting"]

\* the runtime delivers a signal: a send that does not block, dropped when
\* the channel is full
DoSignal ==
    /\ last.op = "run" /\ last.pc \in {"serving", "draining"}
    /\ UNCHANGED <<tools, calls>>
    /\ \E sig \in Signals :
           last' = IF Len(last.sigChan) < ChanCap
                   THEN [last EXCEPT !.sigChan = Append(@, sig)]
                   ELSE last

\* the goroutine calls MCPServer.Start: an error is sent to serverErrChan
\* and the goroutine returns
DoServerStart ==
    /\ last.op = "run" /\ last.server = "starting"
    /\ UNCHANGED <<tools, calls>>
    /\ last' = IF Start(tools).isNil
               THEN [last EXCEPT !.server = "running"]
               ELSE [last EXCEPT !.server = "exited",
                                 !.serverErrChan =
                                     Append(@, ErrorfPrefixW("MCP server failed to start: ",
                                                             Start(tools)))]

\* <-shutdownCtx.Done() returns and the goroutine ends, sending nothing
DoServerDone ==
    /\ last.op = "run" /\ last.server = "running" /\ last.cancelled
    /\ UNCHANGED <<tools, calls>>
    /\ last' = [last EXCEPT !.server = "exited"]

\* the first select of run: a server error is returned; a signal is followed
\* by shutdownCancel() and the start of the shutdown timer
DoSelectSignalOrError ==
    /\ last.op = "run" /\ last.pc = "serving"
    /\ Len(last.sigChan) > 0 \/ Len(last.serverErrChan) > 0
    /\ UNCHANGED <<tools, calls>>
    /\ \E fromSig \in {b \in BOOLEAN : IF b THEN Len(last.sigChan) > 0
                                      ELSE Len(last.serverErrChan) > 0} :
           last' = IF fromSig
                   THEN [last EXCEPT !.pc = "draining", !.got = Head(last.sigChan),
                                     !.sigChan = Tail(@), !.cancelled = TRUE, !.clock = 0]
                   ELSE [last EXCEPT !.pc = "returned", !.ret = Head(last.serverErrChan),
                                     !.serverErrChan = Tail(@), !.cancelled = TRUE]

\* a second passes while run waits in its second select
DoTick ==
    /\ last.op = "run" /\ last.pc = "draining"
    /\ last.clock < ShutdownTimeout
    /\ UNCHANGED <<tools, calls>>
    /\ last' = [last EXCEPT !.clock = @ + 1]

\* the second select of run: the shutdown timer has fired, or an error is
\* received from serverErrChan; when both cases are ready the select takes
\* either
DoSelectShutdown ==
    /\ last.op = "run" /\ last.pc = "draining"
    /\ UNCHANGED <<tools, calls>>
    /\ \E case \in {"timer", "serverErrChan"} :
          /\ case = "timer" => last.clock = ShutdownTimeout
          /\ case = "serverErrChan" => Len(last.serverErrChan) > 0
          /\ last' = IF case = "serverErrChan"
                     THEN [last EXCEPT !.pc = "returned",
                                       !.ret = Head(last.serverErrChan),
                                       !.serverErrChan = Tail(@)]
                     ELSE [last EXCEPT !.pc = "returned",
                                       !.ret = NewError("shutdown timeout exceeded")]

RunNext ==
    \/ DoWireDependencies
    \/ DoSignal
    \/ DoServerStart
    \/ DoServerDone
    \/ DoSelectSignalOrError
    \/ DoTick
    \/ DoSelectShutdown

RunSpec == RunInit /\ [][RunNext]_vars

(* --------------------------- claims on run ----------------------------- *)

\* run, the goroutine and the timer take their steps: the Go scheduler runs
\* every goroutine that can run, and time passes
RunFairSpec ==
    /\ RunSpec
    /\ WF_vars(DoWireDependencies)
    /\ WF_vars(DoServerStart)
    /\ WF_vars(DoServerDone)
    /\ WF_vars(DoSelectSignalOrError)
    /\ WF_vars(DoTick)
    /\ WF_vars(DoSelectShutdown)

\* run received a signal
SignalReceived == last.op = "run" /\ last.got \in Signals

\* run returned without error before the shutdown timer fired, the server
\* context cancelled and the goroutine stopped
ReturnedGracefully ==
    /\ last.op = "run" /\ last.pc = "returned"
    /\ last.ret.isNil
    /\ last.cancelled
    /\ last.server = "exited"
    /\ last.clock < ShutdownTimeout

\* C25: after SIGINT or SIGTERM run cancels the server context, the server
\* goroutine stops, and run returns without error before the shutdown
\* timeout, not with "shutdown timeout exceeded".
C25_GracefulShutdownOnSignal == SignalReceived ~> ReturnedGracefully
====
